---- MODULE Spec2Model ----
(***************************************************************************)
(* Connection and trust core of the BTSpeak client: NetworkManager         *)
(* (btspeak_client/network_manager.py) driven by BTSpeakClientRuntime      *)
(* (btspeak_client/runtime.py).  One foreground thread runs the runtime's  *)
(* menus and _attempt_connection; every NetworkManager.connect starts one  *)
(* background thread running _connect_and_listen.  The runtime builds the  *)
(* NetworkManager without a scheduler, so every deferred callback runs     *)
(* inline on the thread that defers it.                                    *)
(***************************************************************************)
EXTENDS Integers, Sequences, FiniteSets, TLC

----------------------------------------------------------------------------
(* Bounds of the model *)

\* number of background threads that are alive at the same time
MaxThreads == 2
\* cap of the _validation_errors counter
MaxErrors == 1
\* validation failures looked at when the counter is taken on its own
MaxFailures == 6

Threads == 1..MaxThreads
\* None where a thread, loop or socket is expected
NoThread == 0
\* a thread that has ended, or its closed event loop
DeadThread == -1

----------------------------------------------------------------------------
(* Servers, credentials, certificates *)

Servers == {"s1", "s2"}
NoServer == "no_server"

\* get_server_url: s1 is reached over wss://, s2 over ws://
ServerUrl(s) == [server |-> s, tls |-> (s = "s1")]

NoCreds == [identity_id |-> "none", server_id |-> NoServer,
            server_url |-> [server |-> NoServer, tls |-> FALSE],
            username |-> "", password |-> ""]

Credentials(i, s, u, p) ==
    [identity_id |-> i, server_id |-> s, server_url |-> ServerUrl(s),
     username |-> u, password |-> p]

CredSet == { Credentials("id1", "s1", "alice", "pw1"),
             Credentials("id2", "s2", "bob", "pw2"),
             Credentials("id3", "s2", "", "pw3") }

\* SHA-256 fingerprints as hex text: hexdigest() yields lower case
UpperFingerprints == {"AA", "BB"}
LowerFingerprints == {"aa", "bb"}
Fingerprints == UpperFingerprints \cup LowerFingerprints
NoCert == "no_cert"
NoEntry == "no_entry"

\* str.upper() on a fingerprint
Upper(f) ==
    CASE f = "aa" -> "AA"
      [] f = "bb" -> "BB"
      [] OTHER -> f

\* what a server presents in one TLS handshake: the SHA-256 hexdigest of
\* its DER certificate (or no certificate) and whether the default CA
\* context accepts it
CertStates == { [digest |-> "aa", ca |-> TRUE],
                [digest |-> "aa", ca |-> FALSE],
                [digest |-> "bb", ca |-> FALSE],
                [digest |-> NoCert, ca |-> FALSE] }

\* outcome of the TCP/WebSocket layer of one websockets connect() call
NetOutcomes == {"up", "down"}

VARIABLES
    env,            \* what the surroundings of the client do in this run
    trusted,        \* config_manager: server id -> trusted_certificate fingerprint
    server_id,      \* runtime.server_id (read through event_handler.server_id)
    current_credentials, \* runtime._current_credentials
    rt_connected,   \* runtime.connected
    running,        \* runtime.running
    awaiting_authorization, \* runtime._awaiting_authorization
    authorize_success,      \* runtime._authorize_success
    authorize_event,        \* runtime._authorize_event is set
    pending_input_id,       \* runtime.pending_input_id
    ws,             \* NetworkManager.ws: the thread whose socket it is, or NoThread
    connected,      \* NetworkManager.connected
    should_stop,    \* NetworkManager.should_stop
    thread,         \* NetworkManager.thread: latest thread started, or NoThread
    loop,           \* NetworkManager.loop: the thread whose event loop it is
    validation_errors, \* NetworkManager._validation_errors
    fpc,            \* where the foreground thread is
    fjoin,          \* the thread the foreground is joining
    tpc,            \* where each background thread is
    targs,          \* arguments each background thread was started with
    tsock,          \* state of the socket each transport opened
    tjoin,          \* the thread a background thread is joining inside connect()
    tauth,          \* authorize packets each thread wrote to its socket
    close_sched,    \* socket -> thread on whose loop its ws.close() is scheduled
    stop_asked,     \* the live transport the latest disconnect() found in
                    \* self.thread, until that transport has run its cleanup
    \* history of what the operations did, for stating the properties
    prep,           \* the latest prepare_tls_if_needed call
    topen,          \* each thread's _open_connection call
    texit,          \* how each thread left the try block of _connect_and_listen
    tcleanups,      \* times each thread ran the finally block
    tnotified,      \* on_connection_lost calls made by each thread's finally block
    thandler,       \* the packet each thread handled last and what its handler did
    attempt,        \* the latest _attempt_connection call
    last_send,      \* the latest send_packet call
    tdispatch,      \* the latest _handle_packet call looked at on its own
    uinput,         \* the line _handle_user_input works on, the request_input
                    \* prompt that is open, and what each of them sent
    trial,          \* one server, certificate and answer put to both
                    \* prepare_tls_if_needed and _open_connection
    dlog,           \* what the latest operation wrote to the debug log and
                    \* the activity history, and the password it worked with
    config,         \* ConfigManager.identities looked at on its own: servers
                    \* with their trusted certificate, identities, and the
                    \* latest call made
    vrace           \* self._validation_errors += 1 looked at on its own: the
                    \* value each thread has read and not yet written back,
                    \* and the validation failures so far

vars == << env, trusted, server_id, current_credentials, rt_connected, running,
           awaiting_authorization, authorize_success, authorize_event,
           pending_input_id, ws, connected, should_stop, thread, loop,
           validation_errors, fpc, fjoin, tpc, targs, tsock,
           tjoin, tauth, close_sched, stop_asked, prep, topen, texit,
           tcleanups, tnotified, thandler, attempt, last_send,
           tdispatch, uinput, trial, dlog, config, vrace >>

rtVars == << server_id, current_credentials, rt_connected, running,
             awaiting_authorization, authorize_success, authorize_event,
             pending_input_id >>
nmVars == << ws, connected, should_stop, thread, loop >>
fgVars == << fpc, fjoin, attempt >>
thVars == << tpc, targs, tjoin, tauth, topen, texit, tcleanups, tnotified,
             thandler >>
sockVars == << tsock, close_sched, stop_asked >>
ownVars == << tdispatch, uinput, trial, dlog, config, vrace >>

----------------------------------------------------------------------------
(* TLS: fingerprints, pinning, the preparatory trust decision *)

\* _get_trusted_certificate_entry: the entry of the server the event
\* handler names now, None without a server id
GetTrustedCertificateEntry(store, sid) ==
    IF sid = NoServer THEN NoEntry ELSE store[sid]

\* _extract_peer_certificate: fingerprint_hex of the negotiated certificate
ExtractPeerCertificate(cert) ==
    IF cert.digest = NoCert THEN NoCert ELSE Upper(cert.digest)

\* _verify_pinned_certificate: "ok", or "mismatch" after closing the socket
VerifyPinnedCertificate(entry, fingerprint_hex) ==
    IF entry = NoEntry THEN "ok"
    ELSE IF fingerprint_hex = NoCert \/ Upper(entry) # Upper(fingerprint_hex)
         THEN "mismatch"
         ELSE "ok"

\* a store that drops what it is given
StoreDropsRecord(store, sid, fingerprint_hex) == store

\* _store_trusted_certificate / ConfigManager.set_trusted_certificate
StoreTrustedCertificate(store, sid, fingerprint_hex) ==
    IF sid = NoServer THEN store
    ELSE [store EXCEPT ![sid] = fingerprint_hex]

NoPrep == [server |-> NoServer, had_entry |-> FALSE, probe |-> "skipped",
           inspected |-> NoCert, prompted |-> FALSE, answer |-> FALSE,
           set_calls |-> 0, set_fp |-> NoEntry, result |-> FALSE,
           activity |-> ""]

\* a prepare_tls_if_needed that does not look for a stored record first
PrepareIgnoresRecord(store, sid, url, probeNet, probeCert, inspNet, inspCert, answer) ==
    LET base == [NoPrep EXCEPT !.server = sid]
        fp == ExtractPeerCertificate(inspCert)
    IN  IF ~url.tls \/ probeNet = "down" \/ probeCert.ca
          THEN [rec |-> [base EXCEPT !.result = TRUE], store |-> store]
        ELSE IF inspNet = "down" \/ fp = NoCert \/ ~answer
          THEN [rec |-> [base EXCEPT !.probe = "verify_failed"],
                store |-> store]
        ELSE [rec |-> [base EXCEPT !.probe = "verify_failed",
                                   !.inspected = fp, !.prompted = TRUE,
                                   !.answer = TRUE, !.set_calls = 1,
                                   !.set_fp = fp, !.result = TRUE],
              store |-> [store EXCEPT ![sid] = fp]]

\* prepare_tls_if_needed: the call's record and the trust store after it;
\* no branch hands a message to _emit_activity
PrepareTlsIfNeeded(store, sid, url, probeNet, probeCert, inspNet, inspCert, answer) ==
    LET base == [NoPrep EXCEPT !.server = sid]
        entry == GetTrustedCertificateEntry(store, sid)
        fp == ExtractPeerCertificate(inspCert)
    IN  IF ~url.tls
          THEN [rec |-> [base EXCEPT !.result = TRUE], store |-> store]
        ELSE IF entry # NoEntry
          THEN [rec |-> [base EXCEPT !.had_entry = TRUE, !.result = TRUE],
                store |-> store]
        ELSE IF probeNet = "down"
          THEN [rec |-> [base EXCEPT !.probe = "error", !.result = TRUE],
                store |-> store]
        ELSE IF probeCert.ca
          THEN [rec |-> [base EXCEPT !.probe = "ok", !.result = TRUE],
                store |-> store]
        ELSE IF inspNet = "down" \/ fp = NoCert
          THEN [rec |-> [base EXCEPT !.probe = "verify_failed"],
                store |-> store]
        ELSE IF ~answer
          THEN [rec |-> [base EXCEPT !.probe = "verify_failed",
                                     !.inspected = fp, !.prompted = TRUE],
                store |-> store]
        ELSE [rec |-> [base EXCEPT !.probe = "verify_failed",
                                   !.inspected = fp, !.prompted = TRUE,
                                   !.answer = TRUE, !.set_calls = 1,
                                   !.set_fp = fp, !.result = TRUE],
              store |-> StoreTrustedCertificate(store, sid, fp)]

\* first half of _open_connection: the scheme test and the trust-store
\* lookup that pick the branch
OpenLookup(store, sid, url) ==
    IF ~url.tls THEN "ws"
    ELSE IF GetTrustedCertificateEntry(store, sid) # NoEntry THEN "pinned"
    ELSE "default"

\* an _open_connection that asks the user when default verification fails
OpenHandshakeAsksUser(path, store, sid, net, cert) ==
    IF net = "up" /\ path = "default" /\ ~cert.ca
    THEN [result |-> "declined", sock |-> "none", peer |-> "none",
          prompted |-> TRUE, activity |-> ""]
    ELSE [result |-> "neterr", sock |-> "none", peer |-> "none",
          prompted |-> FALSE, activity |-> ""]

\* second half of _open_connection: websockets connect() and, on the TLS
\* branches, _verify_pinned_certificate against the entry of the server the
\* event handler names when the handshake is over.  sock is the state of
\* the socket connect() opened, activity the message handed to
\* _emit_activity (none on any branch).
OpenHandshake(path, store, sid, net, cert) ==
    LET peer == ExtractPeerCertificate(cert)
        check == VerifyPinnedCertificate(GetTrustedCertificateEntry(store, sid), peer)
        verified == IF check = "ok"
                    THEN [result |-> "ok", sock |-> "open", peer |-> peer,
                          prompted |-> FALSE, activity |-> ""]
                    ELSE [result |-> "mismatch", sock |-> "closed",
                          peer |-> peer, prompted |-> FALSE,
                          activity |-> ""]
        failed(why) == [result |-> why, sock |-> "none", peer |-> "none",
                        prompted |-> FALSE, activity |-> ""]
    IN  IF net = "down" THEN failed("neterr")
        ELSE IF path = "ws"
          THEN [result |-> "ok", sock |-> "open", peer |-> "none",
                prompted |-> FALSE, activity |-> ""]
        ELSE IF path = "pinned" THEN verified
        ELSE IF ~cert.ca THEN failed("declined")
        ELSE verified

----------------------------------------------------------------------------
(* Packets and their validation *)

\* packet types validate_outgoing accepts
OutgoingTypes == {"authorize", "menu", "chat", "ping", "editbox", "keybind",
                  "escape", "slash_command", "client_options",
                  "playlist_duration_response", "list_online",
                  "list_online_with_games"}

\* packet types validate_incoming accepts
IncomingTypes == {"authorize_success", "menu", "request_input", "chat",
                  "disconnect", "server_status", "pong", "clear_ui",
                  "table_create", "update_options_lists",
                  "open_client_options", "open_server_options", "game_list",
                  "play_sound", "play_music", "stop_music", "play_ambience",
                  "stop_ambience", "add_playlist", "start_playlist",
                  "remove_playlist", "get_playlist_duration"}

\* validate_outgoing / validate_incoming: the type is known and the other
\* fields fit the type's schema (well_formed)
ValidateOutgoing(packet) ==
    packet.type \in OutgoingTypes /\ packet.well_formed

ValidateIncoming(packet) ==
    packet.type \in IncomingTypes /\ packet.well_formed

\* the handlers table of _handle_packet
Handlers ==
    [ authorize_success |-> "on_authorize_success",
      speak |-> "on_server_speak",
      play_sound |-> "on_server_play_sound",
      play_music |-> "on_server_play_music",
      play_ambience |-> "on_server_play_ambience",
      stop_ambience |-> "on_server_stop_ambience",
      add_playlist |-> "on_server_add_playlist",
      start_playlist |-> "on_server_start_playlist",
      remove_playlist |-> "on_server_remove_playlist",
      get_playlist_duration |-> "on_server_get_playlist_duration",
      menu |-> "on_server_menu",
      request_input |-> "on_server_request_input",
      clear_ui |-> "on_server_clear_ui",
      game_list |-> "on_server_game_list",
      disconnect |-> "on_server_disconnect",
      update_options_lists |-> "on_update_options_lists",
      open_client_options |-> "on_open_client_options",
      open_server_options |-> "on_open_server_options",
      table_create |-> "on_table_create",
      pong |-> "on_server_pong",
      chat |-> "on_receive_chat",
      server_status |-> "on_server_status",
      stop_music |-> "on_server_stop_music" ]

\* a handlers table whose pong entry was left out
HandlerNameForgetsPong(packet_type) ==
    IF packet_type \in (DOMAIN Handlers) \ {"pong"}
    THEN Handlers[packet_type] ELSE ""

\* handlers.get(packet_type): the handler's name, or "" for no handler
HandlerName(packet_type) ==
    IF packet_type \in DOMAIN Handlers THEN Handlers[packet_type] ELSE ""

\* the handler methods BTSpeakClientRuntime defines
RuntimeHandlers ==
    {"on_connection_lost", "on_authorize_success", "on_server_speak",
     "on_server_play_sound", "on_server_play_music", "on_server_stop_music",
     "on_server_play_ambience", "on_server_stop_ambience",
     "on_server_add_playlist", "on_server_start_playlist",
     "on_server_remove_playlist", "on_server_get_playlist_duration",
     "on_server_menu", "on_server_request_input", "on_server_clear_ui",
     "on_server_game_list", "on_server_disconnect",
     "on_update_options_lists", "on_open_client_options",
     "on_open_server_options", "on_table_create", "on_server_pong",
     "on_receive_chat", "on_server_status"}

\* a _handle_packet that goes to the handlers table without validating
HandlePacketCallsUnvalidated(packet) ==
    IF HandlerName(packet.type) = "" THEN << >>
    ELSE IF HandlerName(packet.type) \notin RuntimeHandlers THEN << >>
    ELSE << HandlerName(packet.type) >>

\* the handler calls _handle_packet makes for one packet
HandlePacketCalls(packet) ==
    IF ~ValidateIncoming(packet) THEN << >>
    ELSE IF HandlerName(packet.type) = "" THEN << >>
    ELSE IF HandlerName(packet.type) \notin RuntimeHandlers THEN << >>
    ELSE << HandlerName(packet.type) >>

\* an incoming packet: its type, whether its fields fit the schema, and
\* the fields on_server_disconnect reads
InPacket(type, wf, reconnect, rtl) ==
    [type |-> type, well_formed |-> wf, reconnect |-> reconnect,
     return_to_login |-> rtl]

NoPacket == InPacket("none", FALSE, FALSE, FALSE)

\* the packets a server sends in the full system
CorePackets ==
    { InPacket("authorize_success", TRUE, FALSE, FALSE),
      InPacket("menu", TRUE, FALSE, FALSE),
      InPacket("menu", FALSE, FALSE, FALSE),
      InPacket("server_status", TRUE, FALSE, FALSE),
      InPacket("bogus", TRUE, FALSE, FALSE) }
    \cup { InPacket("disconnect", TRUE, r, l) : r \in BOOLEAN, l \in BOOLEAN }

\* one packet of every type of the handlers table, of the types outside
\* it, well formed or not
AllPackets ==
    { InPacket(ty, wf, FALSE, FALSE) :
        ty \in (DOMAIN Handlers) \cup {"bogus", "authorize", "keybind"},
        wf \in BOOLEAN }
    \cup { InPacket("disconnect", wf, r, l) :
             wf \in BOOLEAN, r \in BOOLEAN, l \in BOOLEAN }

\* the packet _send_authorize builds; an empty username stands for
\* credentials the authorize schema rejects
AuthorizePacket(username, password) ==
    [type |-> "authorize", well_formed |-> (username # ""),
     username |-> username, password |-> password]

\* packets the session sends through send_packet
OutPackets ==
    { [type |-> "ping", well_formed |-> TRUE],
      [type |-> "chat", well_formed |-> FALSE],
      [type |-> "bogus", well_formed |-> TRUE] }

----------------------------------------------------------------------------
(* Initial state: the client has just been constructed; the trust store  *)
(* holds what earlier runs saved                                          *)

\* the arguments NetworkManager.connect hands the new thread
ConnectArgs(creds) ==
    [server_url |-> creds.server_url, username |-> creds.username,
     password |-> creds.password]

NoArgs == ConnectArgs(NoCreds)

NoOpen == [path |-> "none", stored |-> NoEntry, peer |-> "none",
           result |-> "pending", prompted |-> FALSE, activity |-> ""]

\* the retry_after field of a disconnect packet: absent, the JSON numbers
\* 0, 2.5 and 7 (in tenths), and a text int() does not accept
NoRetryAfter == [kind |-> "absent", tenths |-> 0]

RetryAfters ==
    {NoRetryAfter, [kind |-> "text", tenths |-> 0]}
    \cup { [kind |-> "number", tenths |-> n] : n \in {0, 25, 70} }

NoHandler == [packet |-> NoPacket, creds |-> NoCreds, connect_calls |-> 0,
              transports |-> 0, args |-> NoArgs, done |-> FALSE,
              ran_on |-> NoThread, delay |-> 0,
              retry_after |-> NoRetryAfter]

NoAttempt == [transport_started |-> FALSE, authorized |-> FALSE,
              lost |-> FALSE,
              timed_out |-> FALSE, disconnect_calls |-> 0,
              result |-> "none"]

NoSend == [packet |-> [type |-> "none", well_formed |-> FALSE],
           guard_ok |-> FALSE, handed |-> FALSE, raised |-> FALSE,
           result |-> "none", activity |-> ""]

\* a _validate_outgoing_packet that refuses without counting or reporting
ValidateOutgoingPacketSilent(packet, errors) ==
    [ok |-> ValidateOutgoing(packet), errors |-> errors, activity |-> ""]

\* _validate_outgoing_packet: the answer, the counter after the call and
\* the activity message handed to add_history
ValidateOutgoingPacket(packet, errors) ==
    IF ValidateOutgoing(packet)
    THEN [ok |-> TRUE, errors |-> errors, activity |-> ""]
    ELSE [ok |-> FALSE, errors |-> errors + 1,
          activity |-> "Blocked invalid outgoing packet"]

NoDispatch == [packet |-> NoPacket, calls |-> << >>, returned |-> FALSE]

\* pending_input_id = None, and the input_id values a server sends
NoInputId == "none"
InputIds == {"field-1", "field-2"}

\* lines the user types, and str.strip() of each
Lines == {"", "  ", "typed now", " typed now ", "/ping", "/quit", "/help",
          "/online", "/local", "/local hi", "/frobnicate"}

Strip(line) ==
    CASE line = "  " -> ""
      [] line = " typed now " -> "typed now"
      [] OTHER -> line

\* the editbox packet both _handle_user_input and on_server_request_input
\* build
Editbox(text, input_id) ==
    [type |-> "editbox", text |-> text, input_id |-> input_id]

NoUserInput == [line |-> "", pc |-> "idle", seen |-> NoInputId,
                sent |-> << >>, quit |-> FALSE,
                prompting |-> FALSE, answered |-> << >>,
                request |-> NoInputId, response |-> "none"]

\* The surroundings of one run.  In the full surroundings every identity,
\* packet and certificate occurs and a join of a background thread lasts
\* until the thread has ended.  In the overlapping surroundings a join may
\* time out, so that a thread outlives the start of its successor: once
\* with a plain ws server that sends the packets of a session that is told
\* to reconnect, once with a pinned wss server and a ws server that never
\* send a packet.
EnvFull ==
    [overlap |-> FALSE, creds |-> CredSet, incoming |-> CorePackets,
     outgoing |-> OutPackets]

EnvOverlap ==
    [overlap |-> TRUE,
     creds |-> {Credentials("id2", "s2", "bob", "pw2")},
     incoming |-> {InPacket("authorize_success", TRUE, FALSE, FALSE),
                   InPacket("disconnect", TRUE, TRUE, FALSE)},
     outgoing |-> {[type |-> "ping", well_formed |-> TRUE]}]

EnvOverlapTls ==
    [overlap |-> TRUE,
     creds |-> {Credentials("id1", "s1", "alice", "pw1"),
                Credentials("id2", "s2", "bob", "pw2")},
     incoming |-> {},
     outgoing |-> {}]

NoTrial == [server |-> NoServer, cert |-> [digest |-> NoCert, ca |-> FALSE],
            answer |-> FALSE, prepared |-> FALSE, prepare |-> NoPrep,
            prepare_store |-> NoEntry, opened |-> FALSE, open |-> NoOpen,
            net |-> "up", close |-> "ok",
            probe |-> [result |-> "none", sock |-> "none"],
            inspected |-> FALSE,
            inspect |-> [info |-> NoCert, sock |-> "none"]]

NoLog == [password |-> "", lines |-> << >>]

NoCall == [name |-> "none", arg |-> "", value |-> "", raised |-> FALSE]

\* Identities().model_dump(): no servers, no identities
NoConfig == [servers |-> << >>, identities |-> << >>,
             last_identity_id |-> "none", call |-> NoCall]

\* no value of self._validation_errors read and waiting to be written back
NoRead == -1

\* no validation has failed and neither thread is inside the += 1
NoRace == [failures |-> 0, send |-> NoRead, dispatch |-> NoRead]

\* the fields BTSpeakClientRuntime.__init__ and NetworkManager.__init__ set
Constructed ==
    /\ server_id = NoServer
    /\ current_credentials = NoCreds
    /\ rt_connected = FALSE
    /\ running = TRUE
    /\ awaiting_authorization = FALSE
    /\ authorize_success = FALSE
    /\ authorize_event = FALSE
    /\ pending_input_id = "none"
    /\ ws = NoThread
    /\ connected = FALSE
    /\ should_stop = FALSE
    /\ thread = NoThread
    /\ loop = NoThread
    /\ validation_errors = 0
    /\ fpc = "menu"
    /\ fjoin = NoThread
    /\ tpc = [t \in Threads |-> "unborn"]
    /\ targs = [t \in Threads |-> NoArgs]
    /\ tsock = [t \in Threads |-> "none"]
    /\ tjoin = [t \in Threads |-> NoThread]
    /\ tauth = [t \in Threads |-> 0]
    /\ close_sched = [t \in Threads |-> NoThread]
    /\ stop_asked = NoThread
    /\ prep = NoPrep
    /\ topen = [t \in Threads |-> NoOpen]
    /\ texit = [t \in Threads |-> "none"]
    /\ tcleanups = [t \in Threads |-> 0]
    /\ tnotified = [t \in Threads |-> 0]
    /\ thandler = [t \in Threads |-> NoHandler]
    /\ attempt = NoAttempt
    /\ last_send = NoSend

Init ==
    /\ env \in {EnvFull, EnvOverlap, EnvOverlapTls}
    /\ trusted \in [Servers -> {NoEntry} \cup UpperFingerprints]
    /\ \A s \in Servers : ~ServerUrl(s).tls => trusted[s] = NoEntry
    /\ env = EnvOverlap => trusted["s1"] = NoEntry
    /\ env = EnvOverlapTls => trusted["s1"] = "AA"
    /\ Constructed
    /\ tdispatch = NoDispatch
    /\ uinput = NoUserInput
    /\ trial = NoTrial
    /\ dlog = NoLog
    /\ config = NoConfig
    /\ vrace = NoRace

----------------------------------------------------------------------------
(* Threads *)

\* the scheduler NetworkManager falls back on when it is built without
\* one, as the runtime builds it: fn(*args, **kwargs) is called at once,
\* by the thread that calls the scheduler
Scheduler(caller) == caller

\* _defer: the thread the callback runs on
Defer(caller) == Scheduler(caller)

\* Thread.is_alive()
IsAlive(t) == t \in Threads /\ tpc[t] # "unborn"

\* the thread object the next threading.Thread(...) call creates
FreeThreads == { t \in Threads : tpc[t] = "unborn" }
NewThread == CHOOSE t \in FreeThreads : \A u \in FreeThreads : t <= u

\* Thread.join(timeout) on thread j returns: j has ended, or the timeout
\* is over (and the model has a slot left for one more thread)
JoinReturns(j) ==
    /\ FreeThreads # {}
    /\ env.overlap \/ ~IsAlive(j)

\* _authorize_event.wait(timeout=15.0) returns: the event is set, or 15
\* seconds are over, by which time the thread that connect started has
\* left websockets' connect(), whose opening handshake ends or fails
\* within 10 seconds
WaitReturns ==
    \/ authorize_event
    \/ ~(thread \in Threads /\ tpc[thread] = "handshake")

\* the thread's event loop is running and gets to run scheduled coroutines
LoopRuns(t) ==
    t \in Threads /\ tpc[t] \in {"handshake", "authorize", "loop", "recv", "cleanup"}

\* a close() that closes nothing
LeftOpen(sock) == sock

\* ws.close() on an open socket
Closed(sock) == IF sock = "open" THEN "closed" ELSE sock

----------------------------------------------------------------------------
(* Runtime event handlers; each runs on the thread that dispatches it *)

\* BTSpeakClientRuntime.on_connection_lost
OnConnectionLost ==
    /\ rt_connected' = FALSE
    /\ authorize_success' =
           IF awaiting_authorization THEN FALSE ELSE authorize_success
    /\ authorize_event' =
           IF awaiting_authorization THEN TRUE ELSE authorize_event
    /\ UNCHANGED << server_id, current_credentials, running,
                    awaiting_authorization, pending_input_id >>

\* delay_seconds: 3 unless retry_after is given and int() accepts it, then
\* int(retry_after), which drops the fraction, and at least 1
DelaySeconds(retry_after) ==
    IF retry_after.kind = "number"
    THEN IF retry_after.tenths \div 10 > 1 THEN retry_after.tenths \div 10
         ELSE 1
    ELSE 3

\* an on_authorize_success that marks the session connected and leaves
\* the waiting attempt unsignalled
OnAuthorizeSuccessNoSignal ==
    /\ rt_connected' = TRUE
    /\ UNCHANGED << server_id, current_credentials, running,
                    awaiting_authorization, authorize_success,
                    authorize_event, pending_input_id >>

\* an on_authorize_success that marks the session not connected
OnAuthorizeSuccessLeavesSession ==
    /\ rt_connected' = FALSE
    /\ authorize_success' =
           IF awaiting_authorization THEN TRUE ELSE authorize_success
    /\ authorize_event' =
           IF awaiting_authorization THEN TRUE ELSE authorize_event
    /\ UNCHANGED << server_id, current_credentials, running,
                    awaiting_authorization, pending_input_id >>

\* BTSpeakClientRuntime.on_authorize_success
OnAuthorizeSuccess ==
    /\ rt_connected' = TRUE
    /\ authorize_success' =
           IF awaiting_authorization THEN TRUE ELSE authorize_success
    /\ authorize_event' =
           IF awaiting_authorization THEN TRUE ELSE authorize_event
    /\ UNCHANGED << server_id, current_credentials, running,
                    awaiting_authorization, pending_input_id >>

\* an on_server_disconnect that also ends the application
OnServerDisconnectExits ==
    /\ rt_connected' = FALSE
    /\ running' = FALSE
    /\ authorize_success' =
           IF awaiting_authorization THEN FALSE ELSE authorize_success
    /\ authorize_event' =
           IF awaiting_authorization THEN TRUE ELSE authorize_event
    /\ UNCHANGED << server_id, current_credentials,
                    awaiting_authorization, pending_input_id >>

\* on_server_disconnect up to the decision whether to reconnect: the
\* handler goes on to sleep and reconnect exactly when GoesOnToReconnect
OnServerDisconnectEntry ==
    /\ rt_connected' = FALSE
    /\ authorize_success' =
           IF awaiting_authorization THEN FALSE ELSE authorize_success
    /\ authorize_event' =
           IF awaiting_authorization THEN TRUE ELSE authorize_event
    /\ UNCHANGED << server_id, current_credentials, running,
                    awaiting_authorization, pending_input_id >>

\* a decision that does not look at return_to_login
GoesOnIgnoringLogin(packet, creds) ==
    /\ packet.reconnect
    /\ creds # NoCreds

GoesOnToReconnect(packet, creds) ==
    /\ ~packet.return_to_login
    /\ packet.reconnect
    /\ creds # NoCreds

----------------------------------------------------------------------------
(* NetworkManager operations shared by the threads *)

\* NetworkManager.disconnect: the flags, and ws.close() handed to the loop
\* when there is a socket and a loop that is not closed.  A loop that is
\* running runs the coroutine at once; a loop whose thread is inside a
\* handler runs it when the handler returns.  With wait=True the caller then
\* joins the thread for at most `timeout` seconds, which changes no field.
Disconnect ==
    /\ should_stop' = TRUE
    /\ connected' = FALSE
    /\ IF ws \in Threads /\ loop \in Threads
         THEN IF LoopRuns(loop)
                THEN /\ tsock' = [tsock EXCEPT ![ws] = Closed(@)]
                     /\ close_sched' = close_sched
                ELSE /\ close_sched' = [close_sched EXCEPT ![ws] = loop]
                     /\ tsock' = tsock
         ELSE UNCHANGED << tsock, close_sched >>
    /\ stop_asked' = IF IsAlive(thread) /\ tpc[thread] # "done" THEN thread
                     ELSE stop_asked
    /\ UNCHANGED << ws, thread, loop >>

\* the start of NetworkManager.connect: a live thread is told to stop
\* and joined for at most 2 seconds
ConnectStops == IF IsAlive(thread) THEN TRUE ELSE should_stop

----------------------------------------------------------------------------
(* The background thread: _run_async_loop and _connect_and_listen *)

\* what threading.Thread(...).start() leaves behind: the thread has made
\* its event loop and _open_connection has picked its branch from the
\* scheme and the trust store, and now awaits websockets' connect() (the
\* caller moves the thread to "handshake")
StartThread(t, args) ==
    /\ thread' = t
    /\ loop' = t
    /\ targs' = [targs EXCEPT ![t] = args]
    /\ topen' = [topen EXCEPT ![t] =
           [NoOpen EXCEPT !.path = OpenLookup(trusted, server_id, args.server_url)]]

\* connect() returns or raises, then the pin check; on success the socket
\* is published in self.ws and self.connected
T_OpenHandshake(t) ==
    /\ tpc[t] = "handshake"
    /\ \E net \in NetOutcomes, cert \in CertStates :
         LET r == OpenHandshake(topen[t].path, trusted, server_id, net, cert)
         IN  /\ topen' = [topen EXCEPT ![t] =
                    [path |-> topen[t].path,
                     stored |-> GetTrustedCertificateEntry(trusted, targs[t].server_url.server),
                     peer |-> r.peer, result |-> r.result,
                     prompted |-> r.prompted, activity |-> r.activity]]
             /\ tsock' = [tsock EXCEPT ![t] = r.sock]
             /\ IF r.result = "ok"
                  THEN /\ ws' = t
                       /\ connected' = TRUE
                       /\ tpc' = [tpc EXCEPT ![t] = "authorize"]
                       /\ texit' = texit
                  ELSE /\ UNCHANGED << ws, connected >>
                       /\ tpc' = [tpc EXCEPT ![t] = "cleanup"]
                       /\ texit' = [texit EXCEPT ![t] =
                              IF r.result = "declined" THEN "declined"
                              ELSE "exception"]
    /\ UNCHANGED << env, trusted, rtVars, should_stop, thread, loop,
                    validation_errors, fgVars, targs, tjoin, tauth,
                    tcleanups, tnotified, thandler, close_sched,
                    stop_asked, prep,
                    last_send, ownVars >>

\* a _send_authorize that writes the packet without validating it
T_SendAuthorizeUnchecked(t) ==
    /\ tpc[t] = "authorize"
    /\ IF tsock[t] = "open"
         THEN /\ tauth' = [tauth EXCEPT ![t] = @ + 1]
              /\ tpc' = [tpc EXCEPT ![t] = "loop"]
              /\ texit' = texit
         ELSE /\ texit' = [texit EXCEPT ![t] = "exception"]
              /\ tpc' = [tpc EXCEPT ![t] = "cleanup"]
              /\ tauth' = tauth
    /\ targs' = [targs EXCEPT ![t] = NoArgs]
    /\ topen' = [topen EXCEPT ![t] = NoOpen]
    /\ UNCHANGED << env, trusted, rtVars, nmVars, validation_errors, fgVars,
                    tjoin, tcleanups, tnotified, thandler, sockVars, prep,
                    last_send, ownVars >>

\* _send_authorize: the packet is validated, then written to the socket;
\* a refused packet raises RuntimeError out of _connect_and_listen's try
T_SendAuthorize(t) ==
    /\ tpc[t] = "authorize"
    /\ LET packet == AuthorizePacket(targs[t].username, targs[t].password)
       IN  IF ~ValidateOutgoingPacket(packet, validation_errors).ok
             THEN /\ validation_errors < MaxErrors
                  /\ validation_errors' =
                        ValidateOutgoingPacket(packet, validation_errors).errors
                  /\ texit' = [texit EXCEPT ![t] = "exception"]
                  /\ tpc' = [tpc EXCEPT ![t] = "cleanup"]
                  /\ tauth' = tauth
           ELSE IF tsock[t] = "open"
             THEN /\ tauth' = [tauth EXCEPT ![t] = @ + 1]
                  /\ tpc' = [tpc EXCEPT ![t] = "loop"]
                  /\ UNCHANGED << validation_errors, texit >>
           ELSE /\ texit' = [texit EXCEPT ![t] = "exception"]
                /\ tpc' = [tpc EXCEPT ![t] = "cleanup"]
                /\ UNCHANGED << validation_errors, tauth >>
    /\ targs' = [targs EXCEPT ![t] = NoArgs]
    /\ topen' = [topen EXCEPT ![t] = NoOpen]
    /\ UNCHANGED << env, trusted, rtVars, nmVars, fgVars, tjoin,
                    tcleanups, tnotified, thandler, sockVars, prep,
                    last_send, ownVars >>

\* the test of `while not self.should_stop`; the record of the handler
\* call the previous iteration made is dropped
T_LoopCheck(t) ==
    /\ tpc[t] = "loop"
    /\ IF should_stop
         THEN /\ tpc' = [tpc EXCEPT ![t] = "cleanup"]
              /\ texit' = [texit EXCEPT ![t] = "stop"]
         ELSE /\ tpc' = [tpc EXCEPT ![t] = "recv"]
              /\ texit' = texit
    /\ thandler' = [thandler EXCEPT ![t] = NoHandler]
    /\ UNCHANGED << env, trusted, rtVars, nmVars, validation_errors, fgVars,
                    targs, tjoin, tauth, topen, tcleanups, tnotified,
                    sockVars, prep, last_send, ownVars >>

\* recv() times out after a second: back to the test
T_RecvTimeout(t) ==
    /\ tpc[t] = "recv"
    /\ tpc' = [tpc EXCEPT ![t] = "loop"]
    /\ UNCHANGED << env, trusted, rtVars, nmVars, validation_errors, fgVars,
                    targs, tjoin, tauth, topen, texit, tcleanups, tnotified,
                    thandler, sockVars, prep, last_send, ownVars >>

\* the frame is not JSON: json.JSONDecodeError leaves the loop
T_RecvBadJson(t) ==
    /\ tpc[t] = "recv"
    /\ tsock[t] = "open"
    /\ tpc' = [tpc EXCEPT ![t] = "cleanup"]
    /\ texit' = [texit EXCEPT ![t] = "exception"]
    /\ UNCHANGED << env, trusted, rtVars, nmVars, validation_errors, fgVars,
                    targs, tjoin, tauth, topen, tcleanups, tnotified,
                    thandler, sockVars, prep, last_send, ownVars >>

\* ConnectionClosed: the peer closed, or a ws.close() of this side ran
T_RecvClosed(t) ==
    /\ tpc[t] = "recv"
    /\ tsock' = [tsock EXCEPT ![t] = "closed"]
    /\ tpc' = [tpc EXCEPT ![t] = "cleanup"]
    /\ texit' = [texit EXCEPT ![t] = "closed"]
    /\ UNCHANGED << env, trusted, rtVars, nmVars, validation_errors, fgVars,
                    targs, tjoin, tauth, topen, tcleanups, tnotified,
                    thandler, close_sched, stop_asked, prep, last_send,
                    ownVars >>

\* a ws.close() coroutine left waiting by disconnect runs once its loop
\* runs again
T_RunScheduledClose(s) ==
    /\ close_sched[s] # NoThread
    /\ LoopRuns(close_sched[s])
    /\ tsock' = [tsock EXCEPT ![s] = Closed(@)]
    /\ close_sched' = [close_sched EXCEPT ![s] = NoThread]
    /\ UNCHANGED << stop_asked, env, trusted, rtVars, nmVars, validation_errors, fgVars,
                    thVars, prep, last_send, ownVars >>

\* _handle_packet on thread t, called inline by _defer from the receive
\* loop: validation, the handlers table, the handler's call
HandlePacket(t, packet) ==
    LET calls == HandlePacketCalls(packet)
        handler == IF calls = << >> THEN "" ELSE calls[1]
        reconnects == GoesOnToReconnect(packet, current_credentials)
    IN  /\ IF ~ValidateIncoming(packet)
             THEN /\ validation_errors < MaxErrors
                  /\ validation_errors' = validation_errors + 1
             ELSE validation_errors' = validation_errors
        /\ attempt' = IF /\ handler = "on_authorize_success"
                         /\ awaiting_authorization
                         /\ attempt.result = "pending"
                      THEN [attempt EXCEPT !.authorized = TRUE]
                      ELSE attempt
        /\ CASE handler = "on_authorize_success" ->
                  /\ OnAuthorizeSuccess
                  /\ tpc' = [tpc EXCEPT ![t] = "loop"]
                  /\ thandler' = [thandler EXCEPT ![t] =
                         [NoHandler EXCEPT !.packet = packet,
                                           !.ran_on = Defer(t),
                                           !.done = TRUE]]
             [] handler = "on_server_disconnect" ->
                  /\ OnServerDisconnectEntry
                  /\ \E retry_after \in RetryAfters :
                        thandler' = [thandler EXCEPT ![t] =
                         [NoHandler EXCEPT !.packet = packet,
                                           !.creds = current_credentials,
                                           !.ran_on = Defer(t),
                                           !.done = ~reconnects,
                                           !.retry_after =
                                              IF reconnects THEN retry_after
                                              ELSE NoRetryAfter,
                                           !.delay =
                                              IF reconnects
                                              THEN DelaySeconds(retry_after)
                                              ELSE 0]]
                  /\ tpc' = [tpc EXCEPT ![t] =
                         IF reconnects THEN "h_sleep" ELSE "loop"]
             [] OTHER ->
                  /\ UNCHANGED rtVars
                  /\ tpc' = [tpc EXCEPT ![t] = "loop"]
                  /\ thandler' = [thandler EXCEPT ![t] =
                         [NoHandler EXCEPT
                            !.packet = packet,
                            !.ran_on = IF handler = "" THEN NoThread
                                       ELSE Defer(t),
                            !.done = TRUE]]

\* recv() returns a frame that decodes to a packet
T_RecvPacket(t) ==
    /\ tpc[t] = "recv"
    /\ tsock[t] = "open"
    /\ \E packet \in env.incoming : HandlePacket(t, packet)
    /\ UNCHANGED << env, trusted, nmVars, fpc, fjoin, targs, tjoin, tauth, topen,
                    texit, tcleanups, tnotified, sockVars, prep,
                    last_send, ownVars >>

\* the attempt in progress after on_connection_lost released its wait
LossSeen ==
    IF awaiting_authorization /\ attempt.result = "pending"
    THEN [attempt EXCEPT !.lost = TRUE]
    ELSE attempt

\* a finally block that reports the loss whatever the stop flag says
T_CleanupAlwaysNotifies(t) ==
    /\ tpc[t] = "cleanup"
    /\ connected' = FALSE
    /\ ws' = NoThread
    /\ tsock' = [tsock EXCEPT ![t] = Closed(@)]
    /\ topen' = [topen EXCEPT ![t] = NoOpen]
    /\ tcleanups' = [tcleanups EXCEPT ![t] = @ + 1]
    /\ OnConnectionLost
    /\ attempt' = LossSeen
    /\ tnotified' = [tnotified EXCEPT ![t] = @ + 1]
    /\ thandler' = [thandler EXCEPT ![t].ran_on = Defer(t)]
    /\ tpc' = [tpc EXCEPT ![t] = "done"]
    /\ UNCHANGED << env, trusted, should_stop, thread, loop, validation_errors,
                    fpc, fjoin, targs, tjoin, tauth, texit,
                    close_sched, prep, last_send, ownVars >>
    /\ stop_asked' = IF stop_asked = t THEN NoThread ELSE stop_asked

\* the finally block of _connect_and_listen: the fields are reset, the
\* socket _open_connection returned is closed (one the pin check refused
\* is closed already), and on_connection_lost is called unless a stop was
\* requested; _connect_and_listen returns
T_Cleanup(t) ==
    /\ tpc[t] = "cleanup"
    /\ connected' = FALSE
    /\ ws' = NoThread
    /\ tsock' = [tsock EXCEPT ![t] = Closed(@)]
    /\ topen' = [topen EXCEPT ![t] = NoOpen]
    /\ tcleanups' = [tcleanups EXCEPT ![t] = @ + 1]
    /\ IF ~should_stop
         THEN /\ OnConnectionLost
              /\ attempt' = LossSeen
              /\ tnotified' = [tnotified EXCEPT ![t] = @ + 1]
              /\ thandler' = [thandler EXCEPT ![t].ran_on = Defer(t)]
         ELSE UNCHANGED << rtVars, attempt, tnotified, thandler >>
    /\ tpc' = [tpc EXCEPT ![t] = "done"]
    /\ UNCHANGED << env, trusted, should_stop, thread, loop, validation_errors,
                    fpc, fjoin, targs, tjoin, tauth, texit,
                    close_sched, prep, last_send, ownVars >>
    /\ stop_asked' = IF stop_asked = t THEN NoThread ELSE stop_asked

\* the finally block of _run_async_loop closes the event loop and the
\* thread ends: whoever holds the thread or its loop now holds a dead
\* thread and a closed loop, and the thread's own state is gone
Ended(t, x) == IF x = t THEN DeadThread ELSE x

T_ThreadEnd(t) ==
    /\ tpc[t] = "done"
    /\ thread' = Ended(t, thread)
    /\ loop' = Ended(t, loop)
    /\ fjoin' = Ended(t, fjoin)
    /\ tjoin' = [u \in Threads |-> IF u = t THEN NoThread ELSE Ended(t, tjoin[u])]
    /\ close_sched' = [s \in Threads |->
           IF s = t \/ close_sched[s] = t THEN NoThread ELSE close_sched[s]]
    /\ stop_asked' = stop_asked
    /\ tpc' = [tpc EXCEPT ![t] = "unborn"]
    /\ targs' = [targs EXCEPT ![t] = NoArgs]
    /\ tsock' = [tsock EXCEPT ![t] = "none"]
    /\ tauth' = [tauth EXCEPT ![t] = 0]
    /\ topen' = [topen EXCEPT ![t] = NoOpen]
    /\ texit' = [texit EXCEPT ![t] = "none"]
    /\ tcleanups' = [tcleanups EXCEPT ![t] = 0]
    /\ tnotified' = [tnotified EXCEPT ![t] = 0]
    /\ thandler' = [thandler EXCEPT ![t] = NoHandler]
    /\ UNCHANGED << env, trusted, rtVars, ws, connected, should_stop,
                    validation_errors, fpc, attempt, prep, last_send,
                    ownVars >>

----------------------------------------------------------------------------
(* on_server_disconnect after the decision to reconnect, on the thread   *)
(* that dispatched the packet                                            *)

\* time.sleep(delay_seconds) is over after thandler[t].delay seconds: the
\* running test, the authorize flags, and network.connect up to its join.
\* Joining the calling thread raises RuntimeError, which connect answers
\* with False.
T_ReconnectWake(t) ==
    /\ tpc[t] = "h_sleep"
    /\ IF ~running
         THEN /\ thandler' = [thandler EXCEPT ![t].done = TRUE,
                                              ![t].delay = 0,
                                              ![t].retry_after = NoRetryAfter]
              /\ tpc' = [tpc EXCEPT ![t] = "loop"]
              /\ UNCHANGED << rtVars, should_stop, tjoin >>
         ELSE /\ authorize_success' = FALSE
              /\ authorize_event' = FALSE
              /\ should_stop' = ConnectStops
              /\ IF IsAlive(thread) /\ thread = t
                   THEN /\ awaiting_authorization' = FALSE
                        /\ thandler' = [thandler EXCEPT
                               ![t].connect_calls = 1,
                               ![t].args = ConnectArgs(current_credentials),
                               ![t].done = TRUE,
                               ![t].delay = 0,
                               ![t].retry_after = NoRetryAfter]
                        /\ tpc' = [tpc EXCEPT ![t] = "loop"]
                        /\ tjoin' = tjoin
                   ELSE /\ awaiting_authorization' = TRUE
                        /\ thandler' = [thandler EXCEPT
                               ![t].connect_calls = 1,
                               ![t].args = ConnectArgs(current_credentials),
                               ![t].delay = 0,
                               ![t].retry_after = NoRetryAfter]
                        /\ tpc' = [tpc EXCEPT ![t] = "h_join"]
                        /\ tjoin' = [tjoin EXCEPT ![t] =
                               IF IsAlive(thread) THEN thread ELSE NoThread]
              /\ UNCHANGED << server_id, current_credentials, rt_connected,
                              running, pending_input_id >>
    /\ UNCHANGED << env, trusted, ws, connected, thread, loop, validation_errors,
                    fgVars, targs, tauth, topen, texit, tcleanups,
                    tnotified, sockVars, prep, last_send, ownVars >>

\* the join inside connect returned (the thread ended, or 2 seconds
\* passed): the new thread is started
T_ReconnectStart(t) ==
    /\ tpc[t] = "h_join"
    /\ JoinReturns(tjoin[t])
    /\ should_stop' = FALSE
    /\ StartThread(NewThread, thandler[t].args)
    /\ tpc' = [tpc EXCEPT ![t] = "h_wait", ![NewThread] = "handshake"]
    /\ tjoin' = [tjoin EXCEPT ![t] = NoThread]
    /\ thandler' = [thandler EXCEPT ![t].transports = 1]
    /\ UNCHANGED << env, trusted, rtVars, ws, connected, validation_errors,
                    fgVars, tauth, texit, tcleanups, tnotified, sockVars,
                    prep, last_send, ownVars >>

\* _authorize_event.wait(timeout=15.0) in the handler returned
T_ReconnectWait(t) ==
    /\ tpc[t] = "h_wait"
    /\ WaitReturns
    /\ awaiting_authorization' = FALSE
    /\ IF authorize_event /\ authorize_success
         THEN UNCHANGED << nmVars, sockVars >>
         ELSE Disconnect
    /\ thandler' = [thandler EXCEPT ![t].done = TRUE]
    /\ tpc' = [tpc EXCEPT ![t] = "loop"]
    /\ UNCHANGED << env, trusted, server_id, current_credentials, rt_connected,
                    running, authorize_success, authorize_event,
                    pending_input_id, validation_errors, fgVars, targs,
                    tjoin, tauth, topen, texit, tcleanups, tnotified,
                    prep, last_send, ownVars >>

----------------------------------------------------------------------------
(* The foreground thread: the runtime's menus, _attempt_connection and   *)
(* the session                                                            *)

\* _attempt_connection up to the call of prepare_tls_if_needed
F_AttemptStart(credentials) ==
    /\ fpc = "menu"
    /\ running
    /\ current_credentials' = credentials
    /\ server_id' = credentials.server_id
    /\ rt_connected' = FALSE
    /\ authorize_success' = FALSE
    /\ awaiting_authorization' = TRUE
    /\ authorize_event' = FALSE
    /\ attempt' = [NoAttempt EXCEPT !.result = "pending"]
    /\ prep' = NoPrep
    /\ fpc' = "prepare"
    /\ UNCHANGED << env, trusted, running, pending_input_id, nmVars,
                    validation_errors, fjoin, thVars, sockVars,
                    last_send, ownVars >>

\* prepare_tls_if_needed and the test of its result; after True,
\* network.connect up to its join of a live thread
F_Prepare ==
    /\ fpc = "prepare"
    /\ \E probeNet \in NetOutcomes, inspNet \in NetOutcomes,
          cert \in CertStates, answer \in BOOLEAN :
         LET r == PrepareTlsIfNeeded(trusted, server_id,
                                     current_credentials.server_url,
                                     probeNet, cert, inspNet, cert, answer)
         IN  /\ trusted' = r.store
             /\ prep' = r.rec
             /\ IF r.rec.result
                  THEN /\ fpc' = "join"
                       /\ should_stop' = ConnectStops
                       /\ fjoin' = IF IsAlive(thread) THEN thread ELSE NoThread
                       /\ UNCHANGED << awaiting_authorization, attempt >>
                  ELSE /\ fpc' = "menu"
                       /\ awaiting_authorization' = FALSE
                       /\ attempt' = [attempt EXCEPT !.result = "canceled"]
                       /\ UNCHANGED << should_stop, fjoin >>
    /\ UNCHANGED << env, server_id, current_credentials, rt_connected,
                    running, authorize_success, authorize_event,
                    pending_input_id, ws, connected, thread, loop,
                    validation_errors, thVars, sockVars, last_send,
                    ownVars >>

\* the join returned (the thread ended, or 2 seconds passed): the new
\* thread is started and connect returns True
F_ConnectStart ==
    /\ fpc = "join"
    /\ JoinReturns(fjoin)
    /\ should_stop' = FALSE
    /\ StartThread(NewThread, ConnectArgs(current_credentials))
    /\ tpc' = [tpc EXCEPT ![NewThread] = "handshake"]
    /\ fjoin' = NoThread
    /\ attempt' = [attempt EXCEPT !.transport_started = TRUE]
    /\ prep' = NoPrep
    /\ fpc' = "wait"
    /\ UNCHANGED << env, trusted, rtVars, ws, connected, validation_errors,
                    tjoin, tauth, texit, tcleanups, tnotified, thandler,
                    sockVars, last_send, ownVars >>

\* a failure branch that leaves the transport running
AttemptFailureNoDisconnect(timed_out) ==
    /\ UNCHANGED << nmVars, sockVars >>
    /\ attempt' = [attempt EXCEPT !.timed_out = timed_out,
                                  !.result = "failure"]
    /\ fpc' = "menu"

\* the failure branch of _attempt_connection: network.disconnect(wait=True)
\* and the answer False
AttemptFailure(timed_out) ==
    /\ Disconnect
    /\ attempt' = [attempt EXCEPT !.timed_out = timed_out,
                                  !.disconnect_calls = @ + 1,
                                  !.result = "failure"]
    /\ fpc' = "menu"

\* _authorize_event.wait(timeout=15.0) returned, set or timed out, and the
\* rest of _attempt_connection
F_Wait ==
    /\ fpc = "wait"
    /\ WaitReturns
    /\ awaiting_authorization' = FALSE
    /\ IF authorize_event /\ authorize_success
         THEN /\ fpc' = "session"
              /\ attempt' = [attempt EXCEPT !.result = "success"]
              /\ UNCHANGED << nmVars, sockVars >>
         ELSE AttemptFailure(~authorize_event)
    /\ UNCHANGED << env, trusted, server_id, current_credentials, rt_connected,
                    running, authorize_success, authorize_event,
                    pending_input_id, validation_errors, fjoin, thVars,
                    prep, last_send, ownVars >>

\* _disconnect_and_stop_audio
DisconnectAndStopAudio ==
    /\ Disconnect
    /\ rt_connected' = FALSE
    /\ UNCHANGED << server_id, current_credentials, running,
                    awaiting_authorization, authorize_success,
                    authorize_event, pending_input_id >>

\* the top of the loop of _identity_server_menu
F_MenuDisconnect ==
    /\ fpc = "menu"
    /\ running
    /\ rt_connected
    /\ DisconnectAndStopAudio
    /\ UNCHANGED << env, trusted, validation_errors, fgVars, thVars, prep,
                    last_send, ownVars >>

\* the user leaves the session
F_SessionDisconnect ==
    /\ fpc = "session"
    /\ DisconnectAndStopAudio
    /\ fpc' = "menu"
    /\ last_send' = NoSend
    /\ attempt' = NoAttempt
    /\ UNCHANGED << env, trusted, validation_errors, fjoin, thVars, prep,
                    ownVars >>

\* `while self.running and self.connected` of _session_loop ends
F_SessionEnd ==
    /\ fpc = "session"
    /\ ~rt_connected
    /\ fpc' = "menu"
    /\ last_send' = NoSend
    /\ attempt' = NoAttempt
    /\ UNCHANGED << env, trusted, rtVars, nmVars, validation_errors, fjoin,
                    thVars, sockVars, prep, ownVars >>

\* the user exits: run() leaves its loop and calls network.disconnect
F_Exit ==
    /\ fpc = "menu"
    /\ running
    /\ running' = FALSE
    /\ Disconnect
    /\ fpc' = "exited"
    /\ UNCHANGED << env, trusted, server_id, current_credentials, rt_connected,
                    awaiting_authorization, authorize_success,
                    authorize_event, pending_input_id, validation_errors,
                    fjoin, attempt, thVars, prep, last_send,
                    ownVars >>

\* a send_packet that does not look at the connection
SendGuardOpen == TRUE

\* the guard at the top of send_packet
SendGuard == connected /\ ws # NoThread /\ loop # NoThread

\* a send_packet that does not validate
F_SendCheckNoValidation(packet) ==
    /\ fpc = "session"
    /\ IF ~SendGuard
         THEN /\ last_send' = [NoSend EXCEPT !.packet = packet,
                                              !.result = "false"]
              /\ fpc' = fpc
         ELSE /\ last_send' = [NoSend EXCEPT !.packet = packet,
                                              !.guard_ok = TRUE,
                                              !.result = "pending"]
              /\ fpc' = "send"
    /\ UNCHANGED << env, trusted, rtVars, nmVars, validation_errors, fjoin,
                    attempt, thVars, sockVars, prep, ownVars >>

\* send_packet up to the end of validation
F_SendCheck(packet) ==
    /\ fpc = "session"
    /\ IF ~SendGuard
         THEN /\ last_send' = [NoSend EXCEPT !.packet = packet,
                                              !.result = "false"]
              /\ UNCHANGED << validation_errors, fpc >>
       ELSE IF ~ValidateOutgoingPacket(packet, validation_errors).ok
         THEN /\ validation_errors < MaxErrors
              /\ validation_errors' =
                    ValidateOutgoingPacket(packet, validation_errors).errors
              /\ last_send' = [NoSend EXCEPT
                    !.packet = packet,
                    !.guard_ok = TRUE,
                    !.result = "false",
                    !.activity =
                       ValidateOutgoingPacket(packet, validation_errors).activity]
              /\ fpc' = fpc
       ELSE /\ last_send' = [NoSend EXCEPT !.packet = packet,
                                            !.guard_ok = TRUE,
                                            !.result = "pending"]
            /\ fpc' = "send"
            /\ validation_errors' = validation_errors
    /\ UNCHANGED << env, trusted, rtVars, nmVars, fjoin, attempt, thVars,
                    sockVars, prep, ownVars >>

\* the try block of send_packet: self.ws.send(message) is handed to the
\* loop; without a socket or with a closed loop the call raises and
\* send_packet reports the connection lost
F_SendHandOff ==
    /\ fpc = "send"
    /\ IF ws = NoThread \/ loop = DeadThread
         THEN /\ connected' = FALSE
              /\ OnConnectionLost
              /\ last_send' = [last_send EXCEPT !.raised = TRUE,
                                                !.result = "false"]
         ELSE /\ last_send' = [last_send EXCEPT !.handed = TRUE,
                                                !.result = "true"]
              /\ UNCHANGED << connected, rtVars >>
    /\ fpc' = "session"
    /\ UNCHANGED << env, trusted, ws, should_stop, thread, loop,
                    validation_errors, fjoin, attempt, thVars, sockVars,
                    prep, ownVars >>

----------------------------------------------------------------------------
(* The system *)

Foreground ==
    \/ \E credentials \in env.creds : F_AttemptStart(credentials)
    \/ F_Prepare
    \/ F_ConnectStart
    \/ F_Wait
    \/ F_MenuDisconnect
    \/ F_SessionDisconnect
    \/ F_SessionEnd
    \/ F_Exit
    \/ \E packet \in env.outgoing : F_SendCheck(packet)
    \/ F_SendHandOff

Background(t) ==
    \/ T_OpenHandshake(t)
    \/ T_SendAuthorize(t)
    \/ T_LoopCheck(t)
    \/ T_RecvTimeout(t)
    \/ T_RecvBadJson(t)
    \/ T_RecvClosed(t)
    \/ T_RecvPacket(t)
    \/ T_RunScheduledClose(t)
    \/ T_Cleanup(t)
    \/ T_ThreadEnd(t)
    \/ T_ReconnectWake(t)
    \/ T_ReconnectStart(t)
    \/ T_ReconnectWait(t)

Next == Foreground \/ \E t \in Threads : Background(t)

Spec == Init /\ [][Next]_vars

\* The overlapping plain-ws surroundings alone, with the scheduling the
\* threads get: a background thread that can take a step again and
\* again takes one (its joins and waits have timeouts); a recv() on a
\* socket that is closed raises ConnectionClosed instead of timing out for
\* ever; and a receive loop, which tests should_stop every second, does
\* not miss for ever a flag that is set again and again for the 2 or 3
\* seconds of a join
InitStop == Init /\ env = EnvOverlap

Scheduling ==
    \A t \in Threads :
        /\ SF_vars(Background(t))
        /\ SF_vars(T_RecvClosed(t) /\ tsock[t] = "closed")
        /\ SF_vars(T_LoopCheck(t) /\ should_stop)

SpecStop == InitStop /\ [][Next]_vars /\ Scheduling

----------------------------------------------------------------------------
(* _handle_packet on its own: one packet handed to a manager whose event *)
(* handler is the runtime, no connection involved                        *)

InitDispatch ==
    /\ env = EnvFull
    /\ trusted = [s \in Servers |-> NoEntry]
    /\ Constructed
    /\ uinput = NoUserInput
    /\ trial = NoTrial
    /\ dlog = NoLog
    /\ config = NoConfig
    /\ vrace = NoRace
    /\ \E packet \in AllPackets :
          tdispatch = [NoDispatch EXCEPT !.packet = packet]

\* _handle_packet(packet): a packet the validator refuses is counted and
\* dropped; otherwise the handlers table names the method to call
D_HandlePacket ==
    /\ ~tdispatch.returned
    /\ validation_errors < MaxErrors
    /\ validation_errors' =
          IF ValidateIncoming(tdispatch.packet)
          THEN validation_errors ELSE validation_errors + 1
    /\ tdispatch' = [tdispatch EXCEPT
                        !.calls = HandlePacketCalls(tdispatch.packet),
                        !.returned = TRUE]
    /\ UNCHANGED << env, trusted, rtVars, ws, connected, should_stop, thread,
                    loop, fgVars, thVars, sockVars, prep, last_send,
                    uinput, trial, dlog, config, vrace >>

NextDispatch == D_HandlePacket

SpecDispatch == InitDispatch /\ [][NextDispatch]_vars

----------------------------------------------------------------------------
(* Typed lines and request_input prompts during a session: the session   *)
(* loop calls _handle_user_input on the foreground thread while          *)
(* on_server_request_input runs wherever the manager's scheduler puts it *)

\* line.partition(" ") of a stripped line: the command and the rest
Command(line) == IF line = "/local hi" THEN "/local" ELSE line

Rest(line) == IF line = "/local hi" THEN "hi" ELSE ""

StartsWithSlash(line) == line \notin {"", "typed now"}

\* what _handle_user_input passes to send_packet when no input id is pending
CommandPackets(line) ==
    IF ~StartsWithSlash(line)
    THEN << [type |-> "chat", convo |-> "local", message |-> line] >>
    ELSE CASE Command(line) \in {"/quit", "/help"} -> << >>
           [] Command(line) = "/ping" -> << [type |-> "ping"] >>
           [] Command(line) = "/online" -> << [type |-> "list_online"] >>
           [] Command(line) = "/local" ->
                 IF Rest(line) = "" THEN << >>
                 ELSE << [type |-> "chat", convo |-> "local",
                          message |-> Rest(line)] >>
           [] OTHER -> << [type |-> "slash_command", command |-> Command(line),
                           args |-> Rest(line)] >>

\* a session: the attempt for cred succeeded on transport 1, which is now in
\* its receive loop
InSession(cred) ==
    /\ server_id = cred.server_id
    /\ current_credentials = cred
    /\ rt_connected = TRUE
    /\ running = TRUE
    /\ awaiting_authorization = FALSE
    /\ authorize_success = TRUE
    /\ authorize_event = TRUE
    /\ pending_input_id = NoInputId
    /\ ws = 1
    /\ connected = TRUE
    /\ should_stop = FALSE
    /\ thread = 1
    /\ loop = 1
    /\ validation_errors = 0
    /\ fpc = "session"
    /\ fjoin = NoThread
    /\ tpc = [t \in Threads |-> IF t = 1 THEN "loop" ELSE "unborn"]
    /\ targs = [t \in Threads |-> NoArgs]
    /\ tsock = [t \in Threads |-> IF t = 1 THEN "open" ELSE "none"]
    /\ tjoin = [t \in Threads |-> NoThread]
    /\ tauth = [t \in Threads |-> IF t = 1 THEN 1 ELSE 0]
    /\ close_sched = [t \in Threads |-> NoThread]
    /\ stop_asked = NoThread
    /\ prep = NoPrep
    /\ topen = [t \in Threads |-> NoOpen]
    /\ texit = [t \in Threads |-> "none"]
    /\ tcleanups = [t \in Threads |-> 0]
    /\ tnotified = [t \in Threads |-> 0]
    /\ thandler = [t \in Threads |->
                     IF t = 1
                     THEN [NoHandler EXCEPT
                             !.packet = InPacket("authorize_success", TRUE,
                                                 FALSE, FALSE),
                             !.ran_on = Defer(1), !.done = TRUE]
                     ELSE NoHandler]
    /\ attempt = [NoAttempt EXCEPT !.result = "success",
                                   !.transport_started = TRUE,
                                   !.authorized = TRUE]
    /\ last_send = NoSend

InitInput ==
    /\ env = EnvFull
    /\ trusted = [s \in Servers |-> NoEntry]
    /\ \E cred \in env.creds : ~cred.server_url.tls /\ InSession(cred)
    /\ tdispatch = NoDispatch
    /\ uinput = NoUserInput
    /\ trial = NoTrial
    /\ dlog = NoLog
    /\ config = NoConfig
    /\ vrace = NoRace

\* everything but pending_input_id and uinput
inputFrame ==
    << env, trusted, server_id, current_credentials, rt_connected, running,
       awaiting_authorization, authorize_success, authorize_event,
       validation_errors, nmVars, fgVars, thVars, sockVars, prep, last_send,
       tdispatch, trial, dlog, config, vrace >>

\* on_server_request_input up to the io.request_text call, which blocks
\* the thread the handler runs on
U_RequestInput(input_id) ==
    /\ fpc = "session"
    /\ ~uinput.prompting
    /\ pending_input_id' = input_id
    /\ uinput' = [uinput EXCEPT !.prompting = TRUE, !.answered = << >>,
                                 !.request = input_id, !.response = "none"]
    /\ UNCHANGED inputFrame

\* on_server_request_input from the return of io.request_text: None clears
\* the id, a response is sent with the id the field holds now
U_RequestText(response) ==
    /\ uinput.prompting
    /\ uinput' = [uinput EXCEPT
                    !.prompting = FALSE,
                    !.response = response,
                    !.answered = IF response = "none" THEN << >>
                                 ELSE << Editbox(response, pending_input_id) >>]
    /\ pending_input_id' = NoInputId
    /\ UNCHANGED inputFrame

\* _handle_user_input(raw_line) up to the test of pending_input_id: an empty
\* line returns, a pending id leads to the editbox reply, anything else is a
\* chat line or a command
U_HandleUserInput(raw_line) ==
    /\ fpc = "session"
    /\ uinput.pc = "idle"
    /\ uinput' = [uinput EXCEPT
                    !.line = raw_line,
                    !.pc = IF Strip(raw_line) # ""
                              /\ pending_input_id # NoInputId
                           THEN "editbox" ELSE "done",
                    !.seen = pending_input_id,
                    !.sent = IF Strip(raw_line) = ""
                                \/ pending_input_id # NoInputId
                             THEN << >>
                             ELSE CommandPackets(Strip(raw_line)),
                    !.quit = /\ Strip(raw_line) = "/quit"
                             /\ pending_input_id = NoInputId]
    /\ UNCHANGED << pending_input_id, inputFrame >>

\* the editbox branch: the payload reads pending_input_id again, the id is
\* cleared and the payload goes to send_packet
U_EditboxReply ==
    /\ uinput.pc = "editbox"
    /\ uinput' = [uinput EXCEPT
                    !.pc = "done",
                    !.sent = << Editbox(Strip(uinput.line),
                                        pending_input_id) >>]
    /\ pending_input_id' = NoInputId
    /\ UNCHANGED inputFrame

\* _handle_user_input has returned and the session loop asks for a line again
U_LineDone ==
    /\ uinput.pc = "done"
    /\ uinput' = [NoUserInput EXCEPT !.prompting = uinput.prompting,
                                     !.answered = uinput.answered,
                                     !.request = uinput.request,
                                     !.response = uinput.response]
    /\ UNCHANGED << pending_input_id, inputFrame >>

NextInput ==
    \/ \E input_id \in InputIds : U_RequestInput(input_id)
    \/ \E response \in {"none", "answer"} : U_RequestText(response)
    \/ \E raw_line \in Lines : U_HandleUserInput(raw_line)
    \/ U_EditboxReply
    \/ U_LineDone

SpecInput == InitInput /\ [][NextInput]_vars

----------------------------------------------------------------------------
(* prepare_tls_if_needed and _open_connection side by side: both are     *)
(* given the same server, trust store, certificate and answer, with the  *)
(* network up                                                            *)

InitTrust ==
    /\ env = EnvFull
    /\ trusted \in [Servers -> {NoEntry} \cup UpperFingerprints]
    /\ \A s \in Servers : ~ServerUrl(s).tls => trusted[s] = NoEntry
    /\ Constructed
    /\ tdispatch = NoDispatch
    /\ uinput = NoUserInput
    /\ dlog = NoLog
    /\ config = NoConfig
    /\ vrace = NoRace
    /\ \E s \in Servers, cert \in CertStates, answer \in BOOLEAN,
          net \in NetOutcomes, close \in {"ok", "raises"} :
          trial = [NoTrial EXCEPT !.server = s, !.cert = cert,
                                  !.answer = answer, !.net = net,
                                  !.close = close]

trialFrame ==
    << env, trusted, rtVars, nmVars, validation_errors, fgVars, thVars,
       sockVars, prep, last_send, tdispatch, uinput, dlog, config, vrace >>

\* prepare_tls_if_needed(server_url)
X_Prepare ==
    /\ ~trial.prepared
    /\ LET r == PrepareTlsIfNeeded(trusted, trial.server,
                                   ServerUrl(trial.server), "up", trial.cert,
                                   "up", trial.cert, trial.answer)
       IN  trial' = [trial EXCEPT
                        !.prepared = TRUE,
                        !.prepare = r.rec,
                        !.prepare_store = r.store[trial.server]]
    /\ UNCHANGED trialFrame

\* _open_connection(server_url)
X_OpenConnection ==
    /\ ~trial.opened
    /\ LET path == OpenLookup(trusted, trial.server, ServerUrl(trial.server))
           r == OpenHandshake(path, trusted, trial.server, "up", trial.cert)
       IN  trial' = [trial EXCEPT
                        !.opened = TRUE,
                        !.open = [NoOpen EXCEPT
                                    !.path = path,
                                    !.stored = trusted[trial.server],
                                    !.peer = r.peer,
                                    !.result = r.result,
                                    !.prompted = r.prompted,
                                    !.activity = r.activity]]
    /\ UNCHANGED trialFrame

\* `await websocket.close()` in a finally block: sock is the probe socket,
\* "none" when connect() raised before there was one; "closed" says that
\* close() was awaited
CloseProbe(sock) == IF sock = "open" THEN "closed" ELSE sock

\* a _fetch_certificate_info that returns None without closing when the
\* peer shows no certificate
FetchCertificateInfoLeaky(net, cert, close) ==
    IF net = "down" THEN [info |-> NoCert, sock |-> "none"]
    ELSE IF ExtractPeerCertificate(cert) = NoCert
      THEN [info |-> NoCert, sock |-> "open"]
    ELSE [info |-> ExtractPeerCertificate(cert), sock |-> CloseProbe("open")]

\* _fetch_certificate_info: connect() without verification, the peer's
\* fingerprint or None, and close() in the finally block, whose own error
\* is swallowed
FetchCertificateInfo(net, cert, close) ==
    IF net = "down" THEN [info |-> NoCert, sock |-> CloseProbe("none")]
    ELSE [info |-> ExtractPeerCertificate(cert), sock |-> CloseProbe("open")]

\* _probe_default_tls_connection: connect() with default verification;
\* a verification error gives False, any other error leaves the function,
\* also the one close() raises in probe()'s finally block
ProbeDefaultTlsConnection(net, cert, close) ==
    IF net = "down" THEN [result |-> "error", sock |-> "none"]
    ELSE IF ~cert.ca THEN [result |-> "false", sock |-> "none"]
    ELSE [result |-> IF close = "raises" THEN "error" ELSE "true",
          sock |-> CloseProbe("open")]

\* _probe_default_tls_connection(server_url)
X_Probe ==
    /\ trial.probe.result = "none"
    /\ trial' = [trial EXCEPT !.probe =
                    ProbeDefaultTlsConnection(trial.net, trial.cert,
                                              trial.close)]
    /\ UNCHANGED trialFrame

\* _run_coroutine_sync(_fetch_certificate_info(server_url))
X_Inspect ==
    /\ ~trial.inspected
    /\ trial' = [trial EXCEPT
                    !.inspected = TRUE,
                    !.inspect = FetchCertificateInfo(trial.net, trial.cert,
                                                     trial.close)]
    /\ UNCHANGED trialFrame

NextTrust == X_Prepare \/ X_OpenConnection \/ X_Probe \/ X_Inspect

SpecTrust == InitTrust /\ [][NextTrust]_vars

----------------------------------------------------------------------------
(* What reaches the debug log and the activity history.  A packet here is  *)
(* a type, at most one further top-level key with its value, and at most   *)
(* one key with its value inside a nested object; a log line is who wrote  *)
(* it, its fixed text, the values formatted into it and the packet it      *)
(* renders.                                                                *)

RedactedKeys == {"password", "token", "auth", "authorization"}

LogPackets ==
    [type : {"chat", "authorize_success", "disconnect", "menu"},
     well_formed : BOOLEAN,
     key : RedactedKeys \cup {"none", "text"},
     value : {"abc"},
     nkey : {"none", "password", "text"},
     nvalue : {"abc"}]

NoRendering == [type |-> "none", well_formed |-> FALSE, key |-> "none",
                value |-> "", nkey |-> "none", nvalue |-> ""]

LogLine(by, text, values, rendering) ==
    [by |-> by, text |-> text, values |-> values, rendering |-> rendering]

\* a _format_packet_for_debug that scrubs nothing
FormatPacketRaw(packet) == packet

\* _format_packet_for_debug: the values of the redacted top-level keys
\* become "***", everything else is dumped as it is (the dump is cut after
\* max_len characters, which shows no more than this)
FormatPacketForDebug(packet) ==
    [packet EXCEPT !.value = IF packet.key \in RedactedKeys
                             THEN "***" ELSE @]

\* {packet!r} in the runtime's handlers
Repr(packet) == packet

InitLog ==
    /\ env = EnvFull
    /\ trusted = [s \in Servers |-> NoEntry]
    /\ Constructed
    /\ tdispatch = NoDispatch
    /\ uinput = NoUserInput
    /\ trial = NoTrial
    /\ dlog = NoLog
    /\ config = NoConfig
    /\ vrace = NoRace

logFrame ==
    << env, trusted, rtVars, nmVars, validation_errors, fgVars, thVars,
       sockVars, prep, last_send, tdispatch, uinput, trial, config,
       vrace >>

\* the lines _attempt_connection, connect and the transport write up to the
\* authorize packet; the reconnect of on_server_disconnect writes the
\* manager's lines of these
L_AttemptConnection(cred) ==
    /\ dlog' =
         [password |-> cred.password,
          lines |->
            << LogLine("runtime", "connect: start",
                       {cred.identity_id, cred.server_id,
                        cred.server_url.server, cred.username}, NoRendering),
               LogLine("manager", "net: opening connection",
                       {cred.server_url.server}, NoRendering),
               LogLine("manager", "net: sending authorize packet", {},
                       NoRendering) >>
            \o IF ValidateOutgoing(AuthorizePacket(cred.username,
                                                   cred.password))
               THEN << >>
               ELSE << LogLine("manager", "Blocked invalid outgoing packet",
                               {}, NoRendering) >>]
    /\ UNCHANGED logFrame

\* the lines of send_packet for a connected manager
L_SendPacket(packet) ==
    /\ dlog' =
         [password |-> dlog.password,
          lines |->
            IF ValidateOutgoing(packet)
            THEN << LogLine("manager", "net: send packet", {packet.type},
                            FormatPacketForDebug(packet)) >>
            ELSE << LogLine("manager", "Blocked invalid outgoing packet",
                            {}, NoRendering) >>]
    /\ UNCHANGED logFrame

\* the lines of _handle_packet and of the handler it calls
L_HandlePacket(packet) ==
    /\ dlog' =
         [password |-> dlog.password,
          lines |->
            IF ~ValidateIncoming(packet)
            THEN << LogLine("manager", "Ignored invalid server packet", {},
                            NoRendering) >>
            ELSE << LogLine("manager", "net: recv packet", {packet.type},
                            FormatPacketForDebug(packet)) >>
                 \o CASE packet.type = "authorize_success" ->
                           << LogLine("runtime", "authorize_success: packet=",
                                      {}, Repr(packet)) >>
                      [] packet.type = "disconnect" ->
                           << LogLine("runtime",
                                      "event: server_disconnect packet=",
                                      {}, Repr(packet)) >>
                      [] OTHER -> << >>]
    /\ UNCHANGED logFrame

NextLog ==
    \/ \E cred \in CredSet : L_AttemptConnection(cred)
    \/ \E packet \in LogPackets : L_SendPacket(packet)
    \/ \E packet \in LogPackets : L_HandlePacket(packet)

SpecLog == InitLog /\ [][NextLog]_vars

----------------------------------------------------------------------------
(* ConfigManager on its own: the trusted certificate of each server and   *)
(* the global identities.  config.servers maps the ids of the servers of  *)
(* identities.json to the value under "trusted_certificate" ("absent"     *)
(* without the key), config.identities maps identity ids to usernames.    *)

IdentityIds == {"i1", "i2", "i3"}

Usernames == {"Alice", "alice", " alice ", "Bob"}

\* username.strip().casefold()
Fold(username) ==
    CASE username \in {"Alice", "alice", " alice "} -> "alice"
      [] username = "Bob" -> "bob"
      [] OTHER -> username

\* get_trusted_certificate: None for an unknown server and for a server
\* without the key
GetTrustedCertificate(servers, sid) ==
    IF sid \notin DOMAIN servers THEN NoEntry
    ELSE IF servers[sid] = "absent" THEN NoEntry
    ELSE servers[sid]

InitConfig ==
    /\ env = EnvFull
    /\ trusted = [s \in Servers |-> NoEntry]
    /\ Constructed
    /\ tdispatch = NoDispatch
    /\ uinput = NoUserInput
    /\ trial = NoTrial
    /\ dlog = NoLog
    /\ vrace = NoRace
    /\ \E known \in {{"s1"}, {"s1", "s2"}} :
          config = [NoConfig EXCEPT !.servers = [s \in known |-> "absent"]]

configFrame ==
    << env, trusted, rtVars, nmVars, validation_errors, fgVars, thVars,
       sockVars, prep, last_send, tdispatch, uinput, trial, dlog, vrace >>

\* set_trusted_certificate(sid, cert_info)
C_SetTrustedCertificate(sid, cert_info) ==
    /\ config' = [config EXCEPT
                    !.servers = IF sid \in DOMAIN config.servers
                                THEN [@ EXCEPT ![sid] = cert_info]
                                ELSE @,
                    !.call = [NoCall EXCEPT !.name = "set_trusted_certificate",
                                            !.arg = sid,
                                            !.value = cert_info]]
    /\ UNCHANGED configFrame

\* clear_trusted_certificate(sid)
C_ClearTrustedCertificate(sid) ==
    /\ config' = [config EXCEPT
                    !.servers = IF sid \in DOMAIN config.servers
                                THEN IF @[sid] = "absent" THEN @
                                     ELSE [@ EXCEPT ![sid] = NoEntry]
                                ELSE @,
                    !.call = [NoCall EXCEPT
                                !.name = "clear_trusted_certificate",
                                !.arg = sid]]
    /\ UNCHANGED configFrame

\* an add_identity that does not look for the username
C_AddIdentityUnchecked(username) ==
    /\ \E identity_id \in IdentityIds \ DOMAIN config.identities :
          config' = [config EXCEPT
                       !.identities =
                          [i \in DOMAIN @ \cup {identity_id} |->
                              IF i = identity_id THEN username ELSE @[i]],
                       !.call = [NoCall EXCEPT !.name = "add_identity",
                                               !.arg = username,
                                               !.value = identity_id]]
    /\ UNCHANGED configFrame

\* add_identity(username, password): ValueError when a stored username
\* folds to the same text, otherwise a record under a fresh identity id
C_AddIdentity(username) ==
    /\ IF \E i \in DOMAIN config.identities :
             Fold(config.identities[i]) = Fold(username)
         THEN config' = [config EXCEPT
                           !.call = [NoCall EXCEPT !.name = "add_identity",
                                                   !.arg = username,
                                                   !.raised = TRUE]]
         ELSE \E identity_id \in IdentityIds \ DOMAIN config.identities :
                 config' = [config EXCEPT
                              !.identities =
                                 [i \in DOMAIN @ \cup {identity_id} |->
                                     IF i = identity_id THEN username
                                     ELSE @[i]],
                              !.call = [NoCall EXCEPT
                                          !.name = "add_identity",
                                          !.arg = username,
                                          !.value = identity_id]]
    /\ UNCHANGED configFrame

\* delete_identity(identity_id)
C_DeleteIdentity(identity_id) ==
    /\ config' = [config EXCEPT
                    !.identities = [i \in DOMAIN @ \ {identity_id} |-> @[i]],
                    !.last_identity_id =
                       IF identity_id \in DOMAIN config.identities
                          /\ @ = identity_id
                       THEN "none" ELSE @,
                    !.call = [NoCall EXCEPT !.name = "delete_identity",
                                            !.arg = identity_id]]
    /\ UNCHANGED configFrame

\* set_last_identity(identity_id)
C_SetLastIdentity(identity_id) ==
    /\ config' = [config EXCEPT
                    !.last_identity_id = identity_id,
                    !.call = [NoCall EXCEPT !.name = "set_last_identity",
                                            !.arg = identity_id]]
    /\ UNCHANGED configFrame

NextConfig ==
    \/ \E sid \in Servers \cup {"s3"}, cert_info \in UpperFingerprints :
          C_SetTrustedCertificate(sid, cert_info)
    \/ \E sid \in Servers \cup {"s3"} :
          C_ClearTrustedCertificate(sid)
    \/ \E username \in Usernames : C_AddIdentity(username)
    \/ \E identity_id \in IdentityIds : C_DeleteIdentity(identity_id)
    \/ \E identity_id \in IdentityIds : C_SetLastIdentity(identity_id)

SpecConfig == InitConfig /\ [][NextConfig]_vars

----------------------------------------------------------------------------
(* Certificate pinning and the trust store *)

\* thread t's _open_connection call is over, was made to a wss:// server
\* for which a trust record was stored when the handshake ended, and the
\* handshake negotiated a peer whose fingerprint is not the stored one
\* (no_cert: the peer presented no certificate)
PinnedPeerDiffers(t) ==
    /\ topen[t].result # "pending"
    /\ topen[t].path \in {"pinned", "default"}
    /\ topen[t].stored # NoEntry
    /\ topen[t].peer # "none"
    /\ topen[t].peer # Upper(topen[t].stored)

\* C1: once a trust record with fingerprint F is stored for a server, a
\* wss:// connection attempt to that server whose negotiated peer
\* certificate has another fingerprint, or is absent, ends in a fingerprint
\* mismatch, with its socket closed and without any trust prompt.
C1_PinnedMismatchFails ==
    \A t \in Threads :
        PinnedPeerDiffers(t) =>
            /\ topen[t].result = "mismatch"
            /\ tsock[t] = "closed"
            /\ ~topen[t].prompted

\* C2: a stored trust record is never replaced: whatever the client does,
\* the fingerprint stored for a server changes only from absent to
\* present, in a prepare_tls_if_needed call for that server in which
\* trust_prompt was asked and approved the fingerprint that is stored.
C2_RecordNeverReplaced ==
    [][\A s \in Servers :
          trusted'[s] # trusted[s] =>
              /\ trusted[s] = NoEntry
              /\ trusted'[s] # NoEntry
              /\ prep'.server = s
              /\ prep'.prompted /\ prep'.answer
              /\ prep'.set_fp = trusted'[s]]_vars

C2_Witness ==
    /\ prep.server \in Servers
    /\ prep.prompted /\ prep.answer
    /\ ~prep.had_entry
    /\ trusted[prep.server] = prep.set_fp
    /\ trusted[prep.server] # NoEntry

----------------------------------------------------------------------------
(* Sending *)

\* the latest send_packet call has returned
SendReturned == last_send.result \in {"true", "false"}

\* C4 as the specification words it: send_packet hands a packet to the
\* socket if and only if the packet passes outgoing validation.
C4_HandedIffValid ==
    SendReturned =>
        (last_send.handed <=> ValidateOutgoing(last_send.packet))

\* C4: a packet that fails outgoing validation never reaches the socket,
\* and a packet is handed to the socket exactly when the manager was
\* connected at the call (flag, socket and loop), the packet passed
\* outgoing validation and the hand-off to the loop did not raise;
\* send_packet answers true exactly then.
C4_ValidationGate ==
    /\ last_send.handed => ValidateOutgoing(last_send.packet)
    /\ SendReturned =>
          /\ last_send.handed <=>
                 /\ last_send.guard_ok
                 /\ ValidateOutgoing(last_send.packet)
                 /\ ~last_send.raised
          /\ last_send.handed <=> last_send.result = "true"

C4_Witness ==
    /\ SendReturned
    /\ last_send.guard_ok
    /\ ~ValidateOutgoing(last_send.packet)
    /\ ~last_send.handed

----------------------------------------------------------------------------
(* _attempt_connection *)

\* C5: when the transport was started and the authorize wait times out
\* with no authorize_success and no connection_lost delivered,
\* _attempt_connection answers failure and calls network.disconnect
\* exactly once, which leaves the stop flag set and the manager not
\* connected.
C5_HandshakeTimeout ==
    [][(attempt'.timed_out /\ ~attempt.timed_out) =>
          /\ fpc = "wait" /\ fpc' = "menu"
          /\ ~authorize_event
          /\ attempt.transport_started
          /\ attempt'.result = "failure"
          /\ attempt.disconnect_calls = 0
          /\ attempt'.disconnect_calls = 1
          /\ should_stop' /\ ~connected'
          /\ ~awaiting_authorization']_vars

C5_Witness ==
    /\ attempt.timed_out
    /\ attempt.result = "failure"
    /\ attempt.disconnect_calls = 1
    /\ should_stop
    /\ \E t \in Threads : tpc[t] \in {"loop", "recv"}

----------------------------------------------------------------------------
(* on_server_disconnect *)

\* C6: a disconnect packet with reconnect set and return_to_login not set,
\* handled while credentials are stored and the client is running, makes
\* the handler call network.connect once and start exactly one new
\* transport, with the server URL, username and password of the stored
\* credentials.
C6_ReconnectOnce ==
    \A t \in Threads :
        ( /\ thandler[t].done
          /\ thandler[t].packet.type = "disconnect"
          /\ thandler[t].packet.reconnect
          /\ ~thandler[t].packet.return_to_login
          /\ thandler[t].creds # NoCreds
          /\ running )
        => /\ thandler[t].connect_calls = 1
           /\ thandler[t].transports = 1
           /\ thandler[t].args = ConnectArgs(thandler[t].creds)

\* C7: a disconnect packet with return_to_login set makes the handler
\* return without calling network.connect and without starting a
\* transport, whatever its reconnect flag says.
C7_ReturnToLoginNoReconnect ==
    \A t \in Threads :
        ( /\ thandler[t].packet.type = "disconnect"
          /\ thandler[t].packet.return_to_login )
        => /\ thandler[t].done
           /\ thandler[t].connect_calls = 0
           /\ thandler[t].transports = 0
           /\ tpc[t] = "loop"

C7_Witness ==
    \E t \in Threads :
        /\ thandler[t].packet.type = "disconnect"
        /\ thandler[t].packet.return_to_login
        /\ thandler[t].packet.reconnect
        /\ thandler[t].creds # NoCreds
        /\ thandler[t].done
        /\ thandler[t].connect_calls = 0

----------------------------------------------------------------------------
(* Dispatch *)

\* the handler each packet type is expected to reach
PACKET_TO_HANDLER ==
    [ authorize_success |-> "on_authorize_success",
      speak |-> "on_server_speak",
      play_sound |-> "on_server_play_sound",
      play_music |-> "on_server_play_music",
      play_ambience |-> "on_server_play_ambience",
      stop_ambience |-> "on_server_stop_ambience",
      add_playlist |-> "on_server_add_playlist",
      start_playlist |-> "on_server_start_playlist",
      remove_playlist |-> "on_server_remove_playlist",
      get_playlist_duration |-> "on_server_get_playlist_duration",
      menu |-> "on_server_menu",
      request_input |-> "on_server_request_input",
      clear_ui |-> "on_server_clear_ui",
      game_list |-> "on_server_game_list",
      disconnect |-> "on_server_disconnect",
      update_options_lists |-> "on_update_options_lists",
      open_client_options |-> "on_open_client_options",
      open_server_options |-> "on_open_server_options",
      table_create |-> "on_table_create",
      pong |-> "on_server_pong",
      chat |-> "on_receive_chat",
      server_status |-> "on_server_status",
      stop_music |-> "on_server_stop_music" ]

\* C8: _handle_packet returns for every packet; a valid packet of a known
\* type makes exactly one call, to the handler of that type; a packet of
\* an unknown type, and a packet the validator refuses, makes no call.
C8_DispatchComplete ==
    tdispatch.returned =>
        LET packet == tdispatch.packet
            known == packet.type \in DOMAIN PACKET_TO_HANDLER
        IN  /\ (known /\ ValidateIncoming(packet)) =>
                  tdispatch.calls = << PACKET_TO_HANDLER[packet.type] >>
            /\ ~known => tdispatch.calls = << >>
            /\ ~ValidateIncoming(packet) =>
                  (tdispatch.calls = << >> /\ validation_errors = 1)

C8_Witness ==
    /\ tdispatch.returned
    /\ tdispatch.packet.type = "pong"
    /\ tdispatch.calls = << "on_server_pong" >>

----------------------------------------------------------------------------
(* The end of the background routine *)

\* C9: every way out of _connect_and_listen (stop, remote close, a frame
\* that is not JSON, a TLS failure, any other error, failures before the
\* receive loop) runs the finally block exactly once, and after it the
\* socket the transport opened is not open.
C9_SingleCleanup ==
    \A t \in Threads :
        /\ tpc[t] = "done" => (tcleanups[t] = 1 /\ tsock[t] # "open")
        /\ tpc[t] # "done" => tcleanups[t] = 0
        /\ texit[t] # "none" => tpc[t] \in {"cleanup", "done"}

C9_Witness ==
    \E t \in Threads :
        /\ tpc[t] = "done"
        /\ texit[t] = "exception"
        /\ tcleanups[t] = 1
        /\ tsock[t] = "closed"

\* C10 as the specification words it: whenever the background routine has
\* ended, whatever ended it, connection_lost was reported to the runtime.
C10_AlwaysNotified ==
    \A t \in Threads : tpc[t] = "done" => tnotified[t] >= 1

\* C10: when the background routine ends, connection_lost is reported,
\* once, exactly when no stop is requested at the end of the finally
\* block (a remote close or an error not overtaken by disconnect or
\* connect); a routine that ends while a stop is requested ends without
\* reporting.
C10_NotifiedUnlessStopped ==
    [][\A t \in Threads :
          (tpc[t] = "cleanup" /\ tpc'[t] = "done") =>
              /\ tnotified[t] = 0
              /\ tnotified'[t] = (IF should_stop THEN 0 ELSE 1)
              /\ ~should_stop => ~rt_connected']_vars

C10_Witness ==
    \E t \in Threads :
        /\ tpc[t] = "done"
        /\ texit[t] = "closed"
        /\ tnotified[t] = 1
        /\ ~rt_connected

----------------------------------------------------------------------------
(* One transport at a time *)

\* thread t is a live transport: in the opening handshake, sending
\* authorize, or in the receive loop (a handler the loop called included)
LiveTransport(t) ==
    tpc[t] \in {"handshake", "authorize", "loop", "recv",
                "h_sleep", "h_join", "h_wait"}

\* C11: at most one transport is live at any time: a new connection
\* attempt begins only after every earlier transport has been stopped and
\* joined.
C11_OneLiveTransport ==
    Cardinality({ t \in Threads : LiveTransport(t) }) <= 1

----------------------------------------------------------------------------
(* The thread handlers run on *)

\* C12: the runtime's handlers, for received packets and for the loss of
\* the connection, never run on a background thread: the scheduling hook
\* takes every one of them to the thread the foreground chose.
C12_HandlersOffNetworkThread ==
    \A t \in Threads : thandler[t].ran_on \notin Threads

----------------------------------------------------------------------------
(* The incoming validation gate *)

\* thread t's receive loop takes a packet off the socket in this step
Receives(t) ==
    /\ tpc[t] = "recv"
    /\ thandler'[t].packet # NoPacket

\* C13: a received packet reaches a handler only if it passed incoming
\* validation; one that fails it reaches no handler, adds one to the
\* validation-error counter, leaves the runtime and the connection as
\* they were, and the receive loop goes on with its socket open.
C13_IncomingGate ==
    [][\A t \in Threads :
          Receives(t) =>
            /\ thandler'[t].ran_on # NoThread =>
                  /\ ValidateIncoming(thandler'[t].packet)
                  /\ validation_errors' = validation_errors
            /\ ~ValidateIncoming(thandler'[t].packet) =>
                  /\ thandler'[t].ran_on = NoThread
                  /\ validation_errors' = validation_errors + 1
                  /\ tpc'[t] = "loop"
                  /\ tsock[t] = "open" /\ tsock'[t] = "open"
                  /\ connected' = connected /\ ws' = ws
                  /\ UNCHANGED rtVars]_vars

C13_Witness ==
    \E t \in Threads :
        /\ thandler[t].packet.type = "menu"
        /\ ~ValidateIncoming(thandler[t].packet)
        /\ thandler[t].ran_on = NoThread
        /\ validation_errors = 1
        /\ tpc[t] = "loop"
        /\ ~should_stop
        /\ tsock[t] = "open"

----------------------------------------------------------------------------
(* _attempt_connection: refusal, success, loss *)

\* prepare_tls_if_needed answers False in this step
PrepareRefuses ==
    /\ fpc = "prepare"
    /\ fpc' # "prepare"
    /\ ~prep'.result

\* C14: when prepare_tls_if_needed refuses, _attempt_connection answers
\* failure without calling network.connect: no thread is started, the
\* manager is left as it was, and the session is neither connected nor
\* awaiting authorization.
C14_RefusalStartsNothing ==
    [][PrepareRefuses =>
          /\ fpc' = "menu"
          /\ attempt'.result = "canceled"
          /\ ~attempt'.transport_started
          /\ attempt'.disconnect_calls = 0
          /\ tpc' = tpc /\ targs' = targs
          /\ UNCHANGED nmVars
          /\ ~rt_connected'
          /\ ~awaiting_authorization']_vars

\* _authorize_event.wait returns in this step
WaitOver ==
    /\ fpc = "wait"
    /\ fpc' # "wait"

\* thread t hands an authorize_success packet to on_authorize_success in
\* this step, while the runtime awaits authorization
AuthorizeDelivered(t) ==
    /\ Receives(t)
    /\ thandler'[t].packet.type = "authorize_success"
    /\ thandler'[t].ran_on # NoThread
    /\ awaiting_authorization

\* C15 as the specification words it: an attempt during which an
\* authorize_success was delivered while it awaited authorization never
\* ends in failure.
C15_AuthorizedNeverFails ==
    attempt.authorized => attempt.result \in {"pending", "success"}

\* C15: an authorize_success delivered while an attempt awaits
\* authorization, before or during the wait, marks the session connected
\* and sets the signal with success; the attempt answers success and
\* enters the session exactly when the wait returns with the signal set
\* and the success mark still standing: a connection_lost or disconnect
\* packet delivered after the authorize_success, while authorization is
\* still awaited, takes the mark away and the attempt fails.
C15_AuthorizeSuccess ==
    [][/\ \A t \in Threads :
            AuthorizeDelivered(t) =>
                /\ rt_connected' /\ authorize_success' /\ authorize_event'
       /\ WaitOver =>
            /\ attempt'.result = "success" <=>
                   (authorize_event /\ authorize_success)
            /\ attempt'.result = "success" =>
                   /\ fpc' = "session"
                   /\ attempt.authorized
                   /\ ~awaiting_authorization'
                   /\ attempt'.disconnect_calls = 0]_vars

C15_Witness ==
    /\ fpc = "session"
    /\ attempt.result = "success"
    /\ attempt.authorized
    /\ rt_connected
    /\ \E t \in Threads : tpc[t] \in {"loop", "recv"} /\ ws = t

\* C16: a connection_lost delivered while an attempt awaits authorization
\* releases the wait with failure: when the wait returns the attempt
\* answers failure, the session is not connected, and network.disconnect
\* has stopped the transport.
C16_LossFailsAttempt ==
    [][(WaitOver /\ attempt.lost) =>
          /\ attempt'.result = "failure"
          /\ fpc' = "menu"
          /\ ~rt_connected'
          /\ ~awaiting_authorization'
          /\ attempt'.disconnect_calls = 1
          /\ should_stop' /\ ~connected']_vars

LineHandled ==
    /\ uinput.pc # "done"
    /\ uinput'.pc = "done"
    /\ Strip(uinput'.line) # ""
    /\ uinput'.seen # NoInputId

\* C17: a non-empty line typed while a request_input id is pending goes to
\* send_packet as one editbox packet with that id and the line's text,
\* nothing else is sent for the line, and the id is cleared.
C17_PendingInputReply ==
    [][LineHandled =>
          /\ uinput'.sent = << Editbox(Strip(uinput'.line), uinput'.seen) >>
          /\ pending_input_id' = NoInputId]_vars

Inspectable(cert) == ~cert.ca /\ ExtractPeerCertificate(cert) # NoCert

\* C19: a secure connect that finds no trust record and meets a certificate
\* default verification refuses inspects it and asks the user; it gives up
\* with TLSUserDeclined only on the user's refusal or when inspection yields
\* nothing.
C19_ConnectAsksUser ==
    \A t \in Threads :
        (tpc[t] = "handshake" /\ topen[t].path = "default") =>
            \A cert \in CertStates :
                Inspectable(cert) =>
                    OpenHandshake("default", trusted, server_id, "up",
                                  cert).prompted

\* C20: given the same scheme, trust store, certificate and answer,
\* prepare_tls_if_needed returns True exactly when _open_connection
\* establishes trust and returns a socket.
C20_PrepareMatchesConnect ==
    (trial.prepared /\ trial.opened) =>
        (trial.prepare.result <=> trial.open.result = "ok")

----------------------------------------------------------------------------
(* Outgoing validation *)

\* a send_packet call of the session, up to the end of validation: a step
\* of the foreground thread, no transport thread moves
SendCall ==
    /\ fpc = "session"
    /\ fpc' \in {"session", "send"}
    /\ tpc' = tpc
    /\ last_send' # last_send \/ validation_errors' # validation_errors

C22_ConnectedSendSucceeds ==
    SendReturned =>
        /\ ~last_send.guard_ok =>
              (last_send.result = "false" /\ ~last_send.handed)
        /\ (last_send.guard_ok /\ ValidateOutgoing(last_send.packet)) =>
              (last_send.handed /\ last_send.result = "true")

\* C22: a send_packet call made while the connected flag is false or the
\* socket or the loop is missing returns False at once, validating and
\* handing over nothing; a call made while connected with a packet that
\* validates goes on to the hand-off, which schedules one transmission and
\* returns True unless it raises, and then it returns False, nothing is
\* handed over and the manager is marked not connected.
C22_SendNeedsConnection ==
    [][/\ (SendCall /\ ~(connected /\ ws # NoThread /\ loop # NoThread)) =>
             /\ last_send'.result = "false"
             /\ ~last_send'.handed
             /\ ~last_send'.guard_ok
             /\ fpc' = "session"
             /\ validation_errors' = validation_errors
       /\ (SendCall /\ connected /\ ws # NoThread /\ loop # NoThread
                    /\ ValidateOutgoing(last_send'.packet)) =>
             /\ last_send'.result = "pending"
             /\ fpc' = "send"
       /\ (fpc = "send" /\ fpc' = "session") =>
             /\ last_send'.packet = last_send.packet
             /\ last_send'.handed <=> ~last_send'.raised
             /\ last_send'.handed <=> last_send'.result = "true"
             /\ last_send'.raised =>
                   (last_send'.result = "false" /\ ~connected')]_vars

C22_Witness ==
    /\ SendReturned
    /\ ~last_send.guard_ok
    /\ ValidateOutgoing(last_send.packet)
    /\ last_send.result = "false"
    /\ ~connected

\* C23: a transport writes at most one authorize packet to its socket, one
\* that passed outgoing validation, and has written exactly one when it is
\* in its receive loop; when the authorize packet fails validation nothing
\* is written and the transport ends through the exception path.
C23_OneValidAuthorize ==
    [][\A t \in Threads :
          /\ tauth'[t] <= 1
          /\ tpc'[t] \in {"loop", "recv"} => tauth'[t] = 1
          /\ (tpc[t] = "authorize" /\ tpc'[t] # "authorize") =>
               LET packet == AuthorizePacket(targs[t].username,
                                             targs[t].password)
               IN  /\ tauth'[t] # tauth[t] =>
                         (tauth[t] = 0 /\ ValidateOutgoing(packet))
                   /\ ~ValidateOutgoing(packet) =>
                         /\ tauth'[t] = 0
                         /\ tsock'[t] = tsock[t]
                         /\ tpc'[t] = "cleanup"
                         /\ texit'[t] = "exception"]_vars

C23_Witness ==
    \E t \in Threads :
        /\ tpc[t] = "cleanup"
        /\ texit[t] = "exception"
        /\ tauth[t] = 0
        /\ tsock[t] = "open"
        /\ current_credentials.username = ""
        /\ validation_errors = 1

----------------------------------------------------------------------------
(* Logging *)

----------------------------------------------------------------------------
(* A stored record and a certificate that differs from it *)

\* C25: when a trust record is stored and the pinned connection finds a
\* certificate with another fingerprint, _open_connection hands a "Trusted
\* certificate changed" message to the activity history and goes on to the
\* trust flow instead of ending with the SSL error; when the user declines
\* there it raises TLSUserDeclinedError.
C25_OpenReportsChange ==
    (/\ trial.opened
     /\ trial.open.path = "pinned"
     /\ Upper(trial.open.stored) # ExtractPeerCertificate(trial.cert)) =>
        /\ trial.open.activity = "Trusted certificate changed"
        /\ trial.open.result # "mismatch"
        /\ ~trial.answer => trial.open.result = "declined"

\* C26: when a trust record is stored and the server presents a certificate
\* with another fingerprint, prepare_tls_if_needed hands a "Trusted
\* certificate changed" message to the activity history and returns False
\* if the user declines the trust prompt.
C26_PrepareReportsChange ==
    (/\ trial.prepared
     /\ ServerUrl(trial.server).tls
     /\ trusted[trial.server] # NoEntry
     /\ ExtractPeerCertificate(trial.cert) # NoCert
     /\ Upper(trusted[trial.server]) # ExtractPeerCertificate(trial.cert)) =>
        /\ trial.prepare.activity = "Trusted certificate changed"
        /\ ~trial.answer => ~trial.prepare.result

----------------------------------------------------------------------------
(* Probe connections *)

\* C27: when _probe_default_tls_connection or _fetch_certificate_info is
\* over, the connection it opened, if it opened one, has been closed,
\* whether the function returned a result, returned None or raised.
C27_ProbesClosed ==
    /\ trial.probe.result # "none" => trial.probe.sock # "open"
    /\ trial.inspected => trial.inspect.sock # "open"
    /\ (trial.inspected /\ trial.net = "up") =>
          trial.inspect.sock = "closed"
    /\ (trial.probe.result # "none" /\ trial.net = "up" /\ trial.cert.ca) =>
          trial.probe.sock = "closed"

C27_Witness ==
    /\ trial.close = "raises"
    /\ trial.probe.result = "error"
    /\ trial.probe.sock = "closed"
    /\ trial.inspected
    /\ trial.inspect.sock = "closed"

----------------------------------------------------------------------------
(* The trust store and the identities of ConfigManager *)

\* C28: for any server id, get_trusted_certificate returns R after
\* set_trusted_certificate(id, R) and nothing after
\* clear_trusted_certificate(id), and neither call changes the record of
\* another server.
C28_RoundTripAnyServer ==
    [][/\ config'.call.name = "set_trusted_certificate" =>
             GetTrustedCertificate(config'.servers, config'.call.arg)
                = config'.call.value
       /\ config'.call.name = "clear_trusted_certificate" =>
             GetTrustedCertificate(config'.servers, config'.call.arg)
                = NoEntry
       /\ config'.call.name \in {"set_trusted_certificate",
                                 "clear_trusted_certificate"} =>
             \A other \in (Servers \cup {"s3"}) \ {config'.call.arg} :
                 GetTrustedCertificate(config'.servers, other)
                    = GetTrustedCertificate(config.servers, other)]_vars

\* C30: after every add_identity and delete_identity no two stored
\* identities have usernames that are equal once stripped and case-folded;
\* an add_identity whose username matches a stored one in that way raises
\* ValueError and leaves the store as it was, any other one stores the
\* username under a fresh id.
C30_UniqueUsernames ==
    [][/\ \A i, j \in DOMAIN config'.identities :
             i # j => Fold(config'.identities[i]) # Fold(config'.identities[j])
       /\ config'.call.name = "add_identity" =>
             IF \E i \in DOMAIN config.identities :
                   Fold(config.identities[i]) = Fold(config'.call.arg)
               THEN /\ config'.call.raised
                    /\ config'.identities = config.identities
                    /\ config'.last_identity_id = config.last_identity_id
                    /\ config'.servers = config.servers
               ELSE /\ ~config'.call.raised
                    /\ config'.call.value \notin DOMAIN config.identities
                    /\ config'.identities[config'.call.value]
                          = config'.call.arg
       /\ config'.call.name = "delete_identity" =>
             /\ config'.call.arg \notin DOMAIN config'.identities
             /\ \A i \in DOMAIN config.identities \ {config'.call.arg} :
                   /\ i \in DOMAIN config'.identities
                   /\ config'.identities[i] = config.identities[i]]_vars

C30_Witness ==
    /\ config.call.name = "add_identity"
    /\ config.call.arg = " alice "
    /\ config.call.raised
    /\ \E i, j \in DOMAIN config.identities :
          /\ config.identities[i] = "Alice"
          /\ config.identities[j] = "Bob"

\* C29: no step of on_server_disconnect, from its entry with a disconnect
\* packet through its sleep, its call of connect and its wait, changes
\* runtime.running or ends the application, whatever reconnect,
\* retry_after and return_to_login the packet carries.
C29_DisconnectKeepsRunning ==
    [][\A t \in Threads :
          ( \/ /\ tpc[t] = "recv"
               /\ tpc'[t] \in {"loop", "h_sleep"}
               /\ thandler'[t].packet.type = "disconnect"
               /\ thandler'[t].ran_on # NoThread
            \/ /\ tpc[t] \in {"h_sleep", "h_join", "h_wait"}
               /\ tpc'[t] # tpc[t] )
          => /\ running' = running
             /\ fpc' = fpc]_vars

C29_Witness ==
    /\ running
    /\ fpc # "exited"
    /\ \E t \in Threads :
          /\ thandler[t].packet.type = "disconnect"
          /\ thandler[t].packet.reconnect
          /\ ~thandler[t].packet.return_to_login
          /\ tpc[t] = "h_sleep"
          /\ thandler[t].delay = 1

----------------------------------------------------------------------------
(* on_server_request_input and the lines the user types meanwhile *)

\* C31: when on_server_request_input returns no input id is pending; after
\* a cancelled prompt it has sent nothing, after an answered prompt it has
\* sent exactly one editbox packet with the answer and the input_id of the
\* request.
C31_RequestInputReplies ==
    [][(uinput.prompting /\ ~uinput'.prompting) =>
          /\ pending_input_id' = NoInputId
          /\ uinput'.answered =
                IF uinput'.response = "none" THEN << >>
                ELSE << Editbox(uinput'.response, uinput.request) >>]_vars

----------------------------------------------------------------------------
(* The sleep before a reconnect the server asked for *)

\* C32: the delay slept before a server-directed reconnect is at least 1
\* second and at least retry_after seconds: max(1, int(retry_after)) for a
\* numeric retry_after, 3 for an absent one or one int() does not accept.
C32_DelayAtLeastRetryAfter ==
    \A t \in Threads :
        tpc[t] = "h_sleep" =>
            LET retry_after == thandler[t].retry_after
                delay == thandler[t].delay
            IN  /\ delay >= 1
                /\ IF retry_after.kind = "number"
                     THEN /\ delay * 10 >= retry_after.tenths
                          /\ delay \in {1, retry_after.tenths \div 10}
                          /\ delay >= retry_after.tenths \div 10
                     ELSE delay = 3

----------------------------------------------------------------------------
(* Stopping a transport *)

\* C33: a transport that disconnect() asked to stop leaves its receive
\* loop and runs its cleanup at some later point, whatever the foreground
\* does meanwhile, as long as the background threads are scheduled.  (A
\* handler that waits in connect() for a thread slot of the model counts
\* as stopped.)
C33_StopIsEffective ==
    \A t \in Threads :
        (stop_asked = t) ~> \/ tpc[t] \in {"done", "unborn"}
                            \/ tpc[t] = "h_join" /\ FreeThreads = {}

----------------------------------------------------------------------------
(* What a handler leaves of the connection *)

----------------------------------------------------------------------------
(* A transport that outlives the start of its successor *)

\* C35: the cleanup of a transport that has been replaced leaves self.ws
\* and self.connected alone once the newer transport has published its
\* socket and set connected.
C35_CleanupSparesSuccessor ==
    [][\A t \in Threads :
          ( /\ tpc[t] = "cleanup"
            /\ tpc'[t] = "done"
            /\ thread # t
            /\ ws \in Threads /\ ws # t
            /\ connected )
          => /\ ws' = ws
             /\ connected']_vars

\* C36: a transport that connect() has replaced reports no connection_lost
\* once the newer transport is started, and so never releases the wait of
\* the attempt in progress.
C36_NoLossFromSuperseded ==
    [][\A t \in Threads :
          ( /\ tpc[t] = "cleanup"
            /\ tpc'[t] = "done"
            /\ thread \in Threads /\ thread # t )
          => /\ tnotified'[t] = tnotified[t]
             /\ awaiting_authorization =>
                   /\ authorize_event' = authorize_event
                   /\ authorize_success' = authorize_success]_vars

----------------------------------------------------------------------------
(* The session flag after an attempt that failed *)

\* C37: from the moment _attempt_connection has returned failure until the
\* next attempt starts the runtime is not marked connected, also when
\* authorize_success arrives after the wait has timed out.
C37_FailureLeavesDisconnected ==
    (fpc = "menu" /\ attempt.result = "failure") => ~rt_connected

----------------------------------------------------------------------------
(* One request_input, the prompt and the typed line *)

\* C38: a request_input is answered by at most one editbox packet, and
\* every editbox packet that is sent carries the input_id of the request
\* it answers, never an absent one, also when a line the user typed is
\* handled while the prompt of the request is open.
C38_OneReplyWithId ==
    LET replies == uinput.answered \o
                   (IF uinput.seen = uinput.request THEN uinput.sent
                    ELSE << >>)
    IN  /\ uinput.request # NoInputId => Len(replies) <= 1
        /\ \A i \in 1..Len(replies) :
              replies[i].type = "editbox" =>
                  replies[i].input_id = uinput.request

----------------------------------------------------------------------------
(* A stop requested before the socket is open *)

\* C39: a transport that disconnect() asked to stop while its socket was
\* not yet open (its socket is still open and published when it gets to
\* _send_authorize, so no disconnect() has closed it since) does not send
\* the authorize packet.
C39_NoAuthorizeAfterStop ==
    [][\A t \in Threads :
          ( /\ tpc[t] = "authorize"
            /\ tauth'[t] = tauth[t] + 1 )
          => ~(stop_asked = t /\ ws = t /\ tsock[t] = "open")]_vars

----------------------------------------------------------------------------
(* The validation counter on its own: send_packet runs on the foreground  *)
(* thread and _handle_packet on the transport thread, and both execute    *)
(* self._validation_errors += 1 with no lock: the statement reads the     *)
(* attribute, adds one and writes it back, and the other thread may run   *)
(* between the read and the write                                          *)

InitCount ==
    /\ env = EnvFull
    /\ trusted = [s \in Servers |-> NoEntry]
    /\ Constructed
    /\ tdispatch = NoDispatch
    /\ uinput = NoUserInput
    /\ trial = NoTrial
    /\ dlog = NoLog
    /\ config = NoConfig
    /\ vrace = NoRace

countFrame ==
    << env, trusted, rtVars, nmVars, fgVars, thVars, sockVars, prep,
       last_send, tdispatch, uinput, trial, dlog, config >>

\* send_packet -> _validate_outgoing_packet on the foreground thread: a
\* packet the validator refuses makes the thread read the counter
V_ValidateOutgoingPacket(packet) ==
    /\ vrace.send = NoRead
    /\ vrace.failures < MaxFailures
    /\ vrace' = IF ValidateOutgoing(packet) THEN vrace
                ELSE [vrace EXCEPT !.send = validation_errors,
                                   !.failures = @ + 1]
    /\ UNCHANGED << validation_errors, countFrame >>

\* _handle_packet -> _validate_incoming_packet on the transport thread
V_ValidateIncomingPacket(packet) ==
    /\ vrace.dispatch = NoRead
    /\ vrace.failures < MaxFailures
    /\ vrace' = IF ValidateIncoming(packet) THEN vrace
                ELSE [vrace EXCEPT !.dispatch = validation_errors,
                                   !.failures = @ + 1]
    /\ UNCHANGED << validation_errors, countFrame >>

\* the write of += 1: the value the thread read, plus one
V_StoreOutgoing ==
    /\ vrace.send # NoRead
    /\ validation_errors' = vrace.send + 1
    /\ vrace' = [vrace EXCEPT !.send = NoRead]
    /\ UNCHANGED countFrame

V_StoreIncoming ==
    /\ vrace.dispatch # NoRead
    /\ validation_errors' = vrace.dispatch + 1
    /\ vrace' = [vrace EXCEPT !.dispatch = NoRead]
    /\ UNCHANGED countFrame

NextCount ==
    \/ \E packet \in OutPackets : V_ValidateOutgoingPacket(packet)
    \/ \E packet \in CorePackets : V_ValidateIncomingPacket(packet)
    \/ V_StoreOutgoing
    \/ V_StoreIncoming

SpecCount == InitCount /\ [][NextCount]_vars

\* C40: whenever neither thread is inside the increment, the
\* validation-error counter equals the number of outgoing and incoming
\* validation failures so far; no increment is lost when a send on the
\* foreground thread and a dispatch on the transport thread fail
\* validation at the same time.
C40_CounterCountsEveryFailure ==
    (vrace.send = NoRead /\ vrace.dispatch = NoRead)
        => validation_errors = vrace.failures

=============================================================================
